---------------------------- MODULE Spec2Model ----------------------------
(***************************************************************************)
(* A model of the livestatus query engine: the local table scans           *)
(* (TableServiceGroups, TableCommands) and the event console bridge        *)
(* (TableEventConsole / ECTableConnection), and of the time-series column *)
(* (RRDColumnArgs, RRDDataMaker) and a service group's columns.            *)
(*                                                                         *)
(* The specifications share the variables:                                 *)
(*   SpecScan     a local table answers a query row by row                 *)
(*   SpecBridge   TableEventConsole::answerQuery: connect, send, receive   *)
(*   SpecRequest  ECTableConnection::sendRequest over a wide set of        *)
(*                queries                                                  *)
(*   SpecRRD      RRDColumnArgs decodes a column's arguments and           *)
(*                RRDDataMaker::make builds the export request             *)
(*   SpecExport   RRDDataMaker::make from its entry to its return: the     *)
(*                flush, the export, the copy loop and the result;         *)
(*                SpecExportFair adds that make keeps running              *)
(*   SpecGroup    the member columns and the worst service state of a      *)
(*                service group, evaluated as the group changes            *)
(***************************************************************************)
EXTENDS Integers, Sequences, FiniteSets, TLC

VARIABLES
    \* ---- the query's side, shared by all tables
    trace,        \* calls received, in order: authorization checks and processDataset
    gateway,      \* messages passed to query.badGateway
    \* ---- a local table scan
    scanTable,    \* "servicegroups" | "commands" | "none"
    scanRows,     \* servicegroup_list / core()->commands(), as a sequence of names
    scanUser,     \* the groups the user is authorized for
    scanPos,      \* the loop's position in scanRows
    scanPc,       \* "loop" | "done" | "off"
    \* ---- the event console bridge
    ecTable,      \* the table queried
    ecUser,       \* the user's authorization policy
    ecQuery,      \* [columns, filter]
    colOrder,     \* iteration order of the column set
    mkeventd,     \* core()->mkeventdEnabled()
    ecPc,         \* position in answerQuery / run / receiveReply
    request,      \* the text written by sendRequest
    linesRead,    \* the lines getline has delivered so far
    streamState,  \* "good" | "eof" | "bad"
    headers,      \* receiveReply's headers
    isHeader,     \* receiveReply's is_header
    connects,     \* number of connection attempts
    escaped,      \* an exception left answerQuery
    \* ---- a time-series column
    rrdFields,    \* the fields the argument string is written from
    rrdArguments, \* the argument string
    rrdMetrics,   \* the metrics of the host or service that have an RRD
    rrdArgs,      \* RRDColumnArgs, or the error of its construction
    argv_s,       \* make's argv_s
    converted_rpn,        \* make's converted_rpn
    touched_rrds,         \* make's touched_rrds
    next_variable_number, \* make's next_variable_number
    rrdPc,        \* "construct" | "constructed" | "invalid" | "request" |
                  \* "flushed" | "copying" | "release" | "returned" | "crashed" | "off"
    timezone_offset,  \* make's timezone_offset, in seconds
    pnp4nagios,       \* _mc->pnp4nagiosEnabled(), as make read it
    rrdcached_socket, \* _mc->paths()->rrdcached_socket(), as make read it
    rrdCalls,     \* the calls of rrd_flushcached and rrd_xport, in order
    rrdLog,       \* the messages written to the RRD logger
    xport,        \* what rrd_xport returned and left in make's locals
    freeCalls,    \* the pointers passed to free, in order
    data,         \* make's data
    ti,           \* the copy loop's ti
    ptr,          \* the copy loop's ptr, as an index into rrd_data from 1
    overread,     \* samples read past the end of rrd_data
    rrdResult,    \* the vector make returns
    \* ---- a service group's columns
    sgMembers,    \* the group's member list, as a sequence of service names
    sgUser,       \* the services the user is authorized for
    sgLog,        \* the evaluations so far: the group and the columns' values
    sgPc          \* "changed" | "evaluated" | "off"

queryVars  == <<trace, gateway>>
scanVars   == <<scanTable, scanRows, scanUser, scanPos, scanPc>>
bridgeVars == <<ecTable, ecUser, ecQuery, colOrder, mkeventd, ecPc, request,
                linesRead, streamState, headers, isHeader, connects, escaped>>
exportVars == <<timezone_offset, pnp4nagios, rrdcached_socket, rrdCalls, rrdLog,
                xport, freeCalls, data, ti, ptr, overread, rrdResult>>
rrdVars    == <<rrdFields, rrdArguments, rrdMetrics, rrdArgs, argv_s,
                converted_rpn, touched_rrds, next_variable_number, rrdPc,
                exportVars>>
groupVars  == <<sgMembers, sgUser, sgLog, sgPc>>
vars       == <<queryVars, scanVars, bridgeVars, rrdVars, groupVars>>

-----------------------------------------------------------------------------
(* Bounds *)

\* longest servicegroup_list / command list
MaxRows == 3
\* most lines a reply delivers before the stream ends
MaxReplyLines == 3

-----------------------------------------------------------------------------
(* Generic helpers *)

NoValue == [some |-> FALSE, val |-> 0]
Some(v) == [some |-> TRUE, val |-> v]

Range(s) == {s[i] : i \in 1..Len(s)}

\* sequences over S without repetition, of length at most n
RECURSIVE DistinctSeqs(_, _)
DistinctSeqs(S, n) ==
    IF n = 0 THEN {<<>>}
    ELSE LET shorter == DistinctSeqs(S, n - 1) IN
         shorter \cup UNION {{Append(s, x) : x \in S \ Range(s)} : s \in shorter}

\* events of the trace
AuthEvent(row, res) == [type |-> "auth", row |-> row, res |-> res]
DataEvent(row, res) == [type |-> "data", row |-> row, res |-> res]

AuthEvents == SelectSeq(trace, LAMBDA e : e.type = "auth")
DataEvents == SelectSeq(trace, LAMBDA e : e.type = "data")

-----------------------------------------------------------------------------
(* Local table scans: TableServiceGroups and TableCommands *)

GroupNames == {"g1", "g2", "g3"}

\* User::is_authorized_for_service_group, an external collaborator: the user is
\* the set of groups it may see
is_authorized_for_service_group(usr, group) == group \in usr

\* the lambda `process` of TableServiceGroups::answerQuery:
\*   !user.is_authorized_for_service_group(group) || query.processDataset(Row{&group})
\* cont is what processDataset returns if it is called.  The result holds the
\* calls made and the lambda's return value.
TableServiceGroups_process_noAuth(usr, group, cont) ==
    [events |-> <<AuthEvent(group, is_authorized_for_service_group(usr, group)),
                  DataEvent(group, cont)>>,
     result |-> cont]

TableServiceGroups_process(usr, group, cont) ==
    IF ~is_authorized_for_service_group(usr, group)
    THEN [events |-> <<AuthEvent(group, FALSE)>>, result |-> TRUE]
    ELSE [events |-> <<AuthEvent(group, TRUE), DataEvent(group, cont)>>,
          result |-> cont]

\* `if (!process(*group)) return;`: whether the loop goes on to group->next
TableServiceGroups_goesOn_always(result) == TRUE

TableServiceGroups_goesOn(result) == result

\* the loop's body with an authorization check that accepts every command
TableCommands_process_withAuth(cmd, cont) ==
    [events |-> <<AuthEvent(cmd, TRUE), DataEvent(cmd, cont)>>, result |-> cont]

\* the body of the loop of TableCommands::answerQuery: the user is not consulted
TableCommands_process(cmd, cont) ==
    [events |-> <<DataEvent(cmd, cont)>>, result |-> cont]

\* `if (!query.processDataset(Row{&cmd})) break;`
TableCommands_goesOn(result) == result

ScanInit ==
    /\ scanTable \in {"servicegroups", "commands"}
    /\ scanRows \in DistinctSeqs(GroupNames, MaxRows)
    /\ scanUser \in SUBSET GroupNames
    /\ scanTable = "commands" => scanUser = {}
    /\ scanPos = 1
    /\ scanPc = "loop"

ScanOff ==
    /\ scanTable = "none"
    /\ scanRows = <<>>
    /\ scanUser = {}
    /\ scanPos = 1
    /\ scanPc = "off"

\* one iteration of `for (group = servicegroup_list; group != nullptr; group = group->next)`
ServiceGroupsStep ==
    /\ scanTable = "servicegroups"
    /\ scanPc = "loop"
    /\ scanPos <= Len(scanRows)
    /\ \E cont \in BOOLEAN :
         LET r == TableServiceGroups_process(scanUser, scanRows[scanPos], cont) IN
         /\ trace' = trace \o r.events
         /\ IF TableServiceGroups_goesOn(r.result)
            THEN scanPos' = scanPos + 1 /\ scanPc' = "loop"
            ELSE scanPos' = scanPos /\ scanPc' = "done"
    /\ UNCHANGED <<gateway, scanTable, scanRows, scanUser, bridgeVars>>
    /\ UNCHANGED rrdVars
    /\ UNCHANGED groupVars

\* one iteration of `for (auto &cmd : core()->commands())`
CommandsStep ==
    /\ scanTable = "commands"
    /\ scanPc = "loop"
    /\ scanPos <= Len(scanRows)
    /\ \E cont \in BOOLEAN :
         LET r == TableCommands_process(scanRows[scanPos], cont) IN
         /\ trace' = trace \o r.events
         /\ IF TableCommands_goesOn(r.result)
            THEN scanPos' = scanPos + 1 /\ scanPc' = "loop"
            ELSE scanPos' = scanPos /\ scanPc' = "done"
    /\ UNCHANGED <<gateway, scanTable, scanRows, scanUser, bridgeVars>>
    /\ UNCHANGED rrdVars
    /\ UNCHANGED groupVars

\* the end of the list: the loop ends and answerQuery returns
ScanEnd ==
    /\ scanPc = "loop"
    /\ scanPos > Len(scanRows)
    /\ scanPc' = "done"
    /\ UNCHANGED <<queryVars, scanTable, scanRows, scanUser, scanPos, bridgeVars>>
    /\ UNCHANGED rrdVars
    /\ UNCHANGED groupVars

-----------------------------------------------------------------------------
(* Strings *)

Min(a, b) == IF a <= b THEN a ELSE b

\* mk::starts_with
starts_with(str, prefix) ==
    /\ Len(str) >= Len(prefix)
    /\ SubSeq(str, 1, Len(prefix)) = prefix

\* std::string::substr(pos), pos counted from 0
substr(str, pos) == SubSeq(str, pos + 1, Len(str))

\* position of the first ch at or after i, or 0
FindChar(str, ch, i) ==
    LET hits == {k \in i..Len(str) : SubSeq(str, k, k) = ch} IN
    IF hits = {} THEN 0 ELSE CHOOSE k \in hits : \A j \in hits : k <= j

\* mk::split: the fields std::getline(iss, field, delimiter) delivers; a last
\* field that is empty is not delivered
RECURSIVE split(_, _)
split(str, delimiter) ==
    IF str = "" THEN <<>>
    ELSE LET at == FindChar(str, delimiter, 1) IN
         IF at = 0 THEN <<str>>
         ELSE <<SubSeq(str, 1, at - 1)>> \o split(substr(str, at), delimiter)

\* the lines of a text: every "\n" ends a line; characters after the last "\n"
\* form an unterminated last line
RECURSIVE TextLines(_)
TextLines(text) ==
    IF text = "" THEN <<>>
    ELSE LET at == FindChar(text, "\n", 1) IN
         IF at = 0 THEN <<text>>
         ELSE <<SubSeq(text, 1, at - 1)>> \o TextLines(substr(text, at))

\* operator<< of a sequence of strings, each preceded by sep
RECURSIVE Joined(_, _)
Joined(strs, sep) ==
    IF strs = <<>> THEN ""
    ELSE sep \o Head(strs) \o Joined(Tail(strs), sep)

\* the value of a decimal digit, -1 for another character
DigitValue(ch) ==
    CASE ch = "0" -> 0 [] ch = "1" -> 1 [] ch = "2" -> 2 [] ch = "3" -> 3
      [] ch = "4" -> 4 [] ch = "5" -> 5 [] ch = "6" -> 6 [] ch = "7" -> 7
      [] ch = "8" -> 8 [] ch = "9" -> 9 [] OTHER -> -1

RECURSIVE atoiFrom(_, _, _)
atoiFrom(str, i, acc) ==
    IF i > Len(str) \/ DigitValue(SubSeq(str, i, i)) < 0 THEN acc
    ELSE atoiFrom(str, i + 1, 10 * acc + DigitValue(SubSeq(str, i, i)))

\* atol: an optional sign, then decimal digits
atol(str) ==
    IF str # "" /\ SubSeq(str, 1, 1) = "-" THEN 0 - atoiFrom(str, 2, 0)
    ELSE IF str # "" /\ SubSeq(str, 1, 1) = "+" THEN atoiFrom(str, 2, 0)
    ELSE atoiFrom(str, 1, 0)

\* atoi: as atol, for numbers within an int
atoi(str) == atol(str)

-----------------------------------------------------------------------------
(* Event console tables *)

\* TableEventConsoleRules: its constructor adds rule_id and rule_hits
TableEventConsoleRules ==
    [name |-> "eventconsolerules", columns |-> {"rule_id", "rule_hits"}]

\* the event columns shared by the events and history tables, with the joined
\* host columns
EventColumns ==
    {"event_id", "event_text", "event_host", "event_contact_groups",
     "event_contact_groups_precedence", "host_name"}

TableEventConsoleEvents ==
    [name |-> "eventconsoleevents", columns |-> EventColumns]

TableEventConsoleHistory ==
    [name |-> "eventconsolehistory",
     columns |-> {"history_time", "history_line"} \cup EventColumns]

ECTables ==
    {TableEventConsoleRules, TableEventConsoleEvents, TableEventConsoleHistory}

\* Table::any_column with the predicate `c->name() == name`
any_column_named(table, name) == \E c \in table.columns : c = name

-----------------------------------------------------------------------------
(* ECRow *)

\* hosts the core knows; MonitoringCore::getHostByDesignation returns the host
\* or nullptr (here "")
KnownHosts == {"h1"}
getHostByDesignation(designation) ==
    IF designation \in KnownHosts THEN designation ELSE ""

\* ECRow::ECRow: map_[header] = *column_it++ while columns last
ECRow(hdrs, columns) ==
    LET n == Min(Len(hdrs), Len(columns))
        map == [h \in {hdrs[i] : i \in 1..n} |->
                  columns[CHOOSE i \in 1..n :
                            /\ hdrs[i] = h
                            /\ \A j \in (i + 1)..n : hdrs[j] # h]]
    IN [map |-> map,
        host_ |-> IF "event_host" \in DOMAIN map
                  THEN getHostByDesignation(map["event_host"])
                  ELSE ""]

\* ECRow::get that has no default for a column the row lacks
ECRow_get_noDefault(row, column_name, default_value) ==
    IF column_name \in DOMAIN row.map THEN row.map[column_name] ELSE "-1"

\* ECRow::get
ECRow_get(row, column_name, default_value) ==
    IF column_name \in DOMAIN row.map THEN row.map[column_name] ELSE default_value

\* ECRow::getString
ECRow_getString(row, column_name) == ECRow_get(row, column_name, "")

\* ECRow::getInt: atol of the text, "0" for a column the row lacks
ECRow_getInt(row, column_name) == atoi(ECRow_get(row, column_name, "0"))

\* ECRow::getDouble: atof of the text, "0" for a column the row lacks; the
\* replies of the model hold whole numbers only
ECRow_getDouble(row, column_name) == atoi(ECRow_get(row, column_name, "0"))

\* ECRow::host
ECRow_host(row) == row.host_

\* User::is_authorized_for_event, an external collaborator: a policy over the
\* precedence, the contact groups and the host of an event
Users == {"all", "none", "byHost", "byGroups", "byPrecedence"}
is_authorized_for_event(usr, precedence, contact_groups, host) ==
    CASE usr = "all" -> TRUE
      [] usr = "none" -> FALSE
      [] usr = "byHost" -> host # ""
      [] usr = "byGroups" -> contact_groups = "g1"
      [] usr = "byPrecedence" -> precedence = "rule"

\* get_authorizer(table, user) applied to a row
get_authorizer_acceptAll(table, usr, row) == TRUE

get_authorizer(table, usr, row) ==
    IF any_column_named(table, "event_contact_groups_precedence")
    THEN is_authorized_for_event(
             usr, ECRow_getString(row, "event_contact_groups_precedence"),
             ECRow_getString(row, "event_contact_groups"), ECRow_host(row))
    ELSE TRUE

-----------------------------------------------------------------------------
(* Filter trees and the Query's pushdown primitives *)

\* RelationalOperator
ForwardedOps == {"equal", "matches", "equal_icase", "matches_icase"}
OtherOps ==
    {"not_equal", "doesnt_match", "not_equal_icase", "doesnt_match_icase",
     "less", "greater_or_equal", "greater", "less_or_equal"}
RelationalOperators == ForwardedOps \cup OtherOps

\* operator<<(std::ostream &, RelationalOperator)
OperText(oper) ==
    CASE oper = "equal" -> "="
      [] oper = "matches" -> "~"
      [] oper = "equal_icase" -> "=~"
      [] oper = "matches_icase" -> "~~"
      [] oper = "not_equal" -> "!="
      [] oper = "doesnt_match" -> "!~"
      [] oper = "not_equal_icase" -> "!=~"
      [] oper = "doesnt_match_icase" -> "!~~"
      [] oper = "less" -> "<"
      [] oper = "greater_or_equal" -> ">="
      [] oper = "greater" -> ">"
      [] oper = "less_or_equal" -> "<="

\* filter nodes: a comparison, a conjunction, a disjunction
ColumnFilter(col, oper, val) ==
    [kind |-> "column", col |-> col, oper |-> oper, val |-> val, subs |-> <<>>]
AndingFilter(subs) ==
    [kind |-> "and", col |-> "", oper |-> "", val |-> "", subs |-> subs]
OringFilter(subs) ==
    [kind |-> "or", col |-> "", oper |-> "", val |-> "", subs |-> subs]

is_tautology(f) == f.kind = "and" /\ f.subs = <<>>
is_contradiction(f) == f.kind = "or" /\ f.subs = <<>>

\* Filter::conjuncts / Filter::disjuncts
conjuncts(f) == IF f.kind = "and" THEN f.subs ELSE <<f>>
disjuncts(f) == IF f.kind = "or" THEN f.subs ELSE <<f>>

\* Filter::as_column_filter: the node itself, or nullptr
is_column_filter(f) == f.kind = "column"

RECURSIVE Flatten(_)
Flatten(seqs) == IF seqs = <<>> THEN <<>> ELSE Head(seqs) \o Flatten(Tail(seqs))

\* AndingFilter::make / OringFilter::make
AndingFilter_make(subfilters) ==
    IF \E i \in 1..Len(subfilters) : is_contradiction(subfilters[i])
    THEN OringFilter(<<>>)
    ELSE LET filters == Flatten([i \in 1..Len(subfilters) |-> conjuncts(subfilters[i])])
         IN IF Len(filters) = 1 THEN filters[1] ELSE AndingFilter(filters)

OringFilter_make(subfilters) ==
    IF \E i \in 1..Len(subfilters) : is_tautology(subfilters[i])
    THEN AndingFilter(<<>>)
    ELSE LET filters == Flatten([i \in 1..Len(subfilters) |-> disjuncts(subfilters[i])])
         IN IF Len(filters) = 1 THEN filters[1] ELSE OringFilter(filters)

\* Filter::partialFilter: the part of the tree that mentions only column_name
RECURSIVE partialFilter(_, _)
partialFilter(f, column_name) ==
    CASE f.kind = "column" ->
           IF f.col = column_name THEN f ELSE AndingFilter(<<>>)
      [] f.kind = "and" ->
           AndingFilter_make([i \in 1..Len(f.subs) |-> partialFilter(f.subs[i], column_name)])
      [] f.kind = "or" ->
           OringFilter_make([i \in 1..Len(f.subs) |-> partialFilter(f.subs[i], column_name)])

\* the columns a filter tree mentions
RECURSIVE FilterColumns(_)
FilterColumns(f) ==
    IF f.kind = "column" THEN {f.col}
    ELSE UNION {FilterColumns(f.subs[i]) : i \in 1..Len(f.subs)}

\* the kind of value a column holds
ColumnType(col) ==
    CASE col \in {"event_id", "rule_hits", "history_line"} -> "int"
      [] col = "history_time" -> "time"
      [] OTHER -> "string"

\* greatestLowerBoundFor with a disjunction bounded by any one of its parts
RECURSIVE greatestLowerBoundFor_anyDisjunct(_, _)
greatestLowerBoundFor_anyDisjunct(f, column_name) ==
    CASE f.kind = "column" ->
           IF f.col # column_name \/ ColumnType(f.col) = "string" THEN NoValue
           ELSE CASE f.oper \in {"equal", "greater_or_equal"} -> Some(atoi(f.val))
                  [] f.oper = "greater" -> Some(atoi(f.val) + 1)
                  [] OTHER -> NoValue
      [] f.kind = "and" ->
           LET bs == {b \in {greatestLowerBoundFor_anyDisjunct(f.subs[i], column_name) :
                               i \in 1..Len(f.subs)} : b.some}
           IN IF bs = {} THEN NoValue
              ELSE CHOOSE b \in bs : \A c \in bs : c.val <= b.val
      [] f.kind = "or" ->
           LET bs == {b \in {greatestLowerBoundFor_anyDisjunct(f.subs[i], column_name) :
                               i \in 1..Len(f.subs)} : b.some}
           IN IF bs = {} THEN NoValue
              ELSE CHOOSE b \in bs : \A c \in bs : b.val <= c.val

\* Filter::greatestLowerBoundFor: integer and time comparisons bound their
\* column, a conjunction takes the tightest bound of its parts, a disjunction
\* has a bound only if every part has one and then takes the weakest
RECURSIVE greatestLowerBoundFor(_, _)
greatestLowerBoundFor(f, column_name) ==
    CASE f.kind = "column" ->
           IF f.col # column_name \/ ColumnType(f.col) = "string" THEN NoValue
           ELSE CASE f.oper \in {"equal", "greater_or_equal"} -> Some(atoi(f.val))
                  [] f.oper = "greater" -> Some(atoi(f.val) + 1)
                  [] OTHER -> NoValue
      [] f.kind = "and" ->
           LET bs == {b \in {greatestLowerBoundFor(f.subs[i], column_name) :
                               i \in 1..Len(f.subs)} : b.some}
           IN IF bs = {} THEN NoValue
              ELSE CHOOSE b \in bs : \A c \in bs : c.val <= b.val
      [] f.kind = "or" ->
           LET bs == {greatestLowerBoundFor(f.subs[i], column_name) :
                        i \in 1..Len(f.subs)}
           IN IF bs = {} \/ \E b \in bs : ~b.some THEN NoValue
              ELSE CHOOSE b \in bs : \A c \in bs : b.val <= c.val

\* Filter::leastUpperBoundFor
RECURSIVE leastUpperBoundFor(_, _)
leastUpperBoundFor(f, column_name) ==
    CASE f.kind = "column" ->
           IF f.col # column_name \/ ColumnType(f.col) = "string" THEN NoValue
           ELSE CASE f.oper \in {"equal", "less_or_equal"} -> Some(atoi(f.val))
                  [] f.oper = "less" -> Some(atoi(f.val) - 1)
                  [] OTHER -> NoValue
      [] f.kind = "and" ->
           LET bs == {b \in {leastUpperBoundFor(f.subs[i], column_name) :
                               i \in 1..Len(f.subs)} : b.some}
           IN IF bs = {} THEN NoValue
              ELSE CHOOSE b \in bs : \A c \in bs : b.val <= c.val
      [] f.kind = "or" ->
           LET bs == {leastUpperBoundFor(f.subs[i], column_name) :
                        i \in 1..Len(f.subs)}
           IN IF bs = {} \/ \E b \in bs : ~b.some THEN NoValue
              ELSE CHOOSE b \in bs : \A c \in bs : c.val <= b.val

\* Filter::stringValueRestrictionFor: an equality on a string column pins it;
\* a conjunction is pinned by its first pinning part, a disjunction only if
\* all parts pin it to the same value
NoString == [some |-> FALSE, val |-> ""]

RECURSIVE stringValueRestrictionFor(_, _)
stringValueRestrictionFor(f, column_name) ==
    CASE f.kind = "column" ->
           IF f.col = column_name /\ ColumnType(f.col) = "string" /\ f.oper = "equal"
           THEN Some(f.val) ELSE NoString
      [] f.kind = "and" ->
           LET hits == {i \in 1..Len(f.subs) :
                          stringValueRestrictionFor(f.subs[i], column_name).some}
           IN IF hits = {} THEN NoString
              ELSE stringValueRestrictionFor(
                       f.subs[CHOOSE i \in hits : \A j \in hits : i <= j], column_name)
      [] f.kind = "or" ->
           LET rs == {stringValueRestrictionFor(f.subs[i], column_name) :
                        i \in 1..Len(f.subs)}
           IN IF Cardinality(rs) = 1 /\ \A r \in rs : r.some
              THEN CHOOSE r \in rs : TRUE ELSE NoString

\* Query::allColumns: the columns requested and the columns the filters use
allColumns(query) == query.columns \cup FilterColumns(query.filter)

-----------------------------------------------------------------------------
(* Rows against filters: what a filter tree accepts *)

\* the operator a text stands for in a Filter line
OperFromText(text) == CHOOSE oper \in RelationalOperators : OperText(oper) = text

\* std::string's operator<, on strings of digits
RECURSIVE StringLess(_, _)
StringLess(a, b) ==
    IF b = "" THEN FALSE
    ELSE IF a = "" THEN TRUE
    ELSE LET x == DigitValue(SubSeq(a, 1, 1))
             y == DigitValue(SubSeq(b, 1, 1))
         IN IF x # y THEN x < y
            ELSE StringLess(SubSeq(a, 2, Len(a)), SubSeq(b, 2, Len(b)))

\* a regular expression without special characters is searched for as text
Contains(str, pattern) ==
    \E i \in 1..(Len(str) - Len(pattern) + 1) :
        SubSeq(str, i, i + Len(pattern) - 1) = pattern

\* a comparison on a string column; the values hold digits only, so the
\* case-insensitive operators agree with the case-sensitive ones
StringFilter_accepts(oper, value, ref) ==
    CASE oper \in {"equal", "equal_icase"} -> value = ref
      [] oper \in {"not_equal", "not_equal_icase"} -> value # ref
      [] oper \in {"matches", "matches_icase"} -> Contains(value, ref)
      [] oper \in {"doesnt_match", "doesnt_match_icase"} -> ~Contains(value, ref)
      [] oper = "less" -> StringLess(value, ref)
      [] oper = "greater_or_equal" -> ~StringLess(value, ref)
      [] oper = "greater" -> StringLess(ref, value)
      [] oper = "less_or_equal" -> ~StringLess(ref, value)

\* a comparison on an integer or time column; the pattern operators are not
\* defined for numbers and accept nothing
IntFilter_accepts(oper, value, ref) ==
    CASE oper = "equal" -> value = ref
      [] oper = "not_equal" -> value # ref
      [] oper = "less" -> value < ref
      [] oper = "greater_or_equal" -> value >= ref
      [] oper = "greater" -> value > ref
      [] oper = "less_or_equal" -> value <= ref
      [] OTHER -> FALSE

\* Filter::accepts; row maps the columns to their values as text
RECURSIVE accepts(_, _)
accepts(f, row) ==
    CASE f.kind = "column" ->
           IF ColumnType(f.col) = "string"
           THEN StringFilter_accepts(f.oper, row[f.col], f.val)
           ELSE IntFilter_accepts(f.oper, atoi(row[f.col]), atoi(f.val))
      [] f.kind = "and" -> \A i \in 1..Len(f.subs) : accepts(f.subs[i], row)
      [] f.kind = "or" -> \E i \in 1..Len(f.subs) : accepts(f.subs[i], row)

\* the values of a row's columns
RowValues == {"4", "5", "6", "07", "8"}

\* the rows over the columns a filter mentions
RowsOver(f) == [FilterColumns(f) -> RowValues]

-----------------------------------------------------------------------------
(* ECTableConnection::sendRequest *)

grepping_filters ==
    <<"event_id", "event_text", "event_comment", "event_host",
      "event_contact", "event_application", "event_rule_id", "event_owner",
      "event_ipaddress", "event_core_host">>

special_columns ==
    {"event_host", "event_contact_groups_precedence", "event_contact_groups"}

\* emitGET: the table's name without its "eventconsole" prefix
emitGET(table) == "GET " \o substr(table.name, 12)

emitOutputFormat == "\nOutputFormat: plain"

\* the columns emitColumnsHeader starts from: those the query uses, and the
\* special columns the table has
ColumnsConsidered_noSpecial(table, query) ==
    allColumns(query)

ColumnsConsidered(table, query) ==
    allColumns(query) \cup {c \in table.columns : c \in special_columns}

\* whether emitColumnsHeader writes a column of the set
ColumnEmitted_all(name) == TRUE

ColumnEmitted(name) == ~starts_with(name, "host_")

\* emitColumnsHeader; order is the iteration order of the column set
emitColumnsHeader(table, query, order) ==
    LET all == ColumnsConsidered(table, query) IN
    "\nColumns:"
        \o Joined(SelectSeq(order, LAMBDA c : c \in all /\ ColumnEmitted(c)), " ")

\* emitTimeRangeFilter
emitTimeRangeFilter_lowerOnly(query) ==
    LET glb == greatestLowerBoundFor(query.filter, "history_time") IN
    IF glb.some THEN "\nFilter: history_time >= " \o ToString(glb.val) ELSE ""

emitTimeRangeFilter(query) ==
    LET glb == greatestLowerBoundFor(query.filter, "history_time")
        lub == leastUpperBoundFor(query.filter, "history_time")
    IN (IF glb.some
        THEN "\nFilter: history_time >= " \o ToString(glb.val) ELSE "")
       \o (IF lub.some
           THEN "\nFilter: history_time <= " \o ToString(lub.val) ELSE "")

\* emitGreppingFilter, the fallback with one bound taken for a pinned value
emitGreppingFallback_oneBound(query, column_name) ==
    LET svr == stringValueRestrictionFor(query.filter, column_name)
        glb == greatestLowerBoundFor(query.filter, column_name)
    IN IF svr.some
       THEN "\nFilter: " \o column_name \o " = " \o svr.val
       ELSE IF glb.some
            THEN "\nFilter: " \o column_name \o " = " \o ToString(glb.val)
            ELSE ""

\* the second half of emitGreppingFilter's loop body: the column is pinned to
\* one value
emitGreppingFallback(query, column_name) ==
    LET svr == stringValueRestrictionFor(query.filter, column_name)
        glb == greatestLowerBoundFor(query.filter, column_name)
        lub == leastUpperBoundFor(query.filter, column_name)
    IN IF svr.some
       THEN "\nFilter: " \o column_name \o " = " \o svr.val
       ELSE IF glb.some /\ lub.some /\ glb = lub
            THEN "\nFilter: " \o column_name \o " = " \o ToString(glb.val)
            ELSE ""

\* the body of emitGreppingFilter's loop for one column of grepping_filters
\* emitGreppingFilter's loop body with every operator forwarded
emitGreppingFilterFor_anyOper(query, column_name) ==
    LET cs == conjuncts(partialFilter(query.filter, column_name)) IN
    IF Len(cs) = 1 /\ is_column_filter(cs[1])
    THEN "\nFilter: " \o column_name \o " " \o OperText(cs[1].oper)
             \o " " \o cs[1].val
    ELSE emitGreppingFallback(query, column_name)

emitGreppingFilterFor_noContinue(query, column_name) ==
    LET cs == conjuncts(partialFilter(query.filter, column_name)) IN
    (IF Len(cs) = 1 /\ is_column_filter(cs[1]) /\ cs[1].oper \in ForwardedOps
     THEN "\nFilter: " \o column_name \o " " \o OperText(cs[1].oper)
              \o " " \o cs[1].val
     ELSE "")
    \o emitGreppingFallback(query, column_name)

emitGreppingFilterFor(query, column_name) ==
    LET cs == conjuncts(partialFilter(query.filter, column_name)) IN
    IF Len(cs) = 1 /\ is_column_filter(cs[1]) /\ cs[1].oper \in ForwardedOps
    THEN "\nFilter: " \o column_name \o " " \o OperText(cs[1].oper)
             \o " " \o cs[1].val
    ELSE emitGreppingFallback(query, column_name)

\* emitGreppingFilter: the loop over grepping_filters from position i
RECURSIVE emitGreppingFilterFrom(_, _)
emitGreppingFilterFrom(query, i) ==
    IF i > Len(grepping_filters) THEN ""
    ELSE emitGreppingFilterFor(query, grepping_filters[i])
             \o emitGreppingFilterFrom(query, i + 1)

emitGreppingFilter(query) == emitGreppingFilterFrom(query, 1)

\* sendRequest: everything written to the stream, std::endl last
sendRequest_filtersFirst(table, query, order) ==
    emitGET(table) \o emitOutputFormat
        \o emitTimeRangeFilter(query) \o emitGreppingFilter(query)
        \o emitColumnsHeader(table, query, order) \o "\n"

sendRequest(table, query, order) ==
    emitGET(table) \o emitOutputFormat \o emitColumnsHeader(table, query, order)
        \o emitTimeRangeFilter(query) \o emitGreppingFilter(query) \o "\n"

-----------------------------------------------------------------------------
(* ECTableConnection::receiveReply and TableEventConsole::answerQuery *)

\* most connection attempts followed
MaxConnects == 2

\* the body of receiveReply's loop after a successful getline; cont is what
\* processDataset returns if it is called.  `returns` says that receiveReply
\* returns instead of reading on.
receiveReply_line_ignoresSignal(table, usr, hdrs, isHdr, line, cont) ==
    IF line = ""
    THEN [events |-> <<>>, headers |-> hdrs, isHeader |-> isHdr, returns |-> TRUE]
    ELSE LET columns == split(line, "\t") IN
         IF isHdr
         THEN [events |-> <<>>, headers |-> columns, isHeader |-> FALSE,
               returns |-> FALSE]
         ELSE IF get_authorizer(table, usr, ECRow(hdrs, columns))
              THEN [events |-> <<AuthEvent(line, TRUE), DataEvent(line, cont)>>,
                    headers |-> hdrs, isHeader |-> FALSE, returns |-> FALSE]
              ELSE [events |-> <<AuthEvent(line, FALSE)>>,
                    headers |-> hdrs, isHeader |-> FALSE, returns |-> FALSE]

receiveReply_line(table, usr, hdrs, isHdr, line, cont) ==
    IF line = ""
    THEN [events |-> <<>>, headers |-> hdrs, isHeader |-> isHdr, returns |-> TRUE]
    ELSE LET columns == split(line, "\t") IN
         IF isHdr
         THEN [events |-> <<>>, headers |-> columns, isHeader |-> FALSE,
               returns |-> FALSE]
         ELSE IF get_authorizer(table, usr, ECRow(hdrs, columns))
              THEN [events |-> <<AuthEvent(line, TRUE), DataEvent(line, cont)>>,
                    headers |-> hdrs, isHeader |-> FALSE, returns |-> ~cont]
              ELSE [events |-> <<AuthEvent(line, FALSE)>>,
                    headers |-> hdrs, isHeader |-> FALSE, returns |-> FALSE]

\* EventConsoleConnection::check: a stream that failed without reaching its
\* end raises std::runtime_error("cannot <what>")
check(state, what) ==
    IF state = "bad"
    THEN [raised |-> TRUE, kind |-> "runtime_error", what |-> "cannot " \o what]
    ELSE [raised |-> FALSE, kind |-> "", what |-> ""]

\* the try/catch of TableEventConsole::answerQuery around run(): what happens
\* to an exception raised by run()
answerQuery_catch_retry(exc) ==
    [report |-> <<exc.what>>, escaped |-> FALSE, pc |-> "start"]

answerQuery_catch(exc) ==
    IF exc.kind = "runtime_error"
    THEN [report |-> <<exc.what>>, escaped |-> FALSE, pc |-> "done"]
    ELSE [report |-> <<>>, escaped |-> TRUE, pc |-> "done"]

\* run() goes on to next unless the check raised
Proceed(chk, next) ==
    IF chk.raised
    THEN LET h == answerQuery_catch(chk) IN
         /\ gateway' = gateway \o h.report
         /\ escaped' = h.escaped
         /\ ecPc' = h.pc
    ELSE /\ gateway' = gateway
         /\ escaped' = escaped
         /\ ecPc' = next

\* the lines a reply can hold
HeaderLine ==
    "event_id\tevent_host\tevent_contact_groups_precedence\tevent_contact_groups"
ReplyLines ==
    {HeaderLine, "1\th1\thost\tg1", "2\th2\trule\tg2", "3\th1", ""}

\* answerQuery with the event console disabled: nothing is done
AnswerQueryDisabled ==
    /\ ecPc = "start"
    /\ ~mkeventd
    /\ ecPc' = "done"
    /\ UNCHANGED <<queryVars, scanVars, ecTable, ecUser, ecQuery, colOrder,
                   mkeventd, request, linesRead, streamState, headers,
                   isHeader, connects, escaped>>
    /\ UNCHANGED rrdVars
    /\ UNCHANGED groupVars

\* run(): connect to the status socket, then check(stream, "connect")
RunConnect ==
    /\ ecPc = "start"
    /\ mkeventd
    /\ connects < MaxConnects
    /\ connects' = connects + 1
    /\ \E state \in {"good", "bad"} :
         /\ streamState' = state
         /\ Proceed(check(state, "connect"), "connected")
    /\ UNCHANGED <<trace, scanVars, ecTable, ecUser, ecQuery, colOrder,
                   mkeventd, request, linesRead, headers, isHeader>>
    /\ UNCHANGED rrdVars
    /\ UNCHANGED groupVars

\* run(): sendRequest(stream), flush, shut the sending side down, then
\* check(stream, "send request")
RunSend ==
    /\ ecPc = "connected"
    /\ request' = sendRequest(ecTable, ecQuery, colOrder)
    /\ \E state \in {"good", "bad"} :
         /\ streamState' = state
         /\ Proceed(check(state, "send request"), "receiving")
    /\ UNCHANGED <<trace, scanVars, ecTable, ecUser, ecQuery, colOrder,
                   mkeventd, linesRead, headers, isHeader, connects>>
    /\ UNCHANGED rrdVars
    /\ UNCHANGED groupVars

\* receiveReply: getline delivers a line, and the loop's body handles it; when
\* receiveReply returns, run() ends with check(stream, "receive reply")
ReceiveLine ==
    /\ ecPc = "receiving"
    /\ Len(linesRead) < MaxReplyLines
    /\ \E line \in ReplyLines, cont \in BOOLEAN :
         LET r == receiveReply_line(ecTable, ecUser, headers, isHeader, line, cont) IN
         /\ linesRead' = Append(linesRead, line)
         /\ trace' = trace \o r.events
         /\ headers' = r.headers
         /\ isHeader' = r.isHeader
         /\ ecPc' = IF r.returns THEN "done" ELSE "receiving"
    /\ UNCHANGED <<gateway, scanVars, ecTable, ecUser, ecQuery, colOrder,
                   mkeventd, request, streamState, connects, escaped>>
    /\ UNCHANGED rrdVars
    /\ UNCHANGED groupVars

\* receiveReply: getline fails, at the end of the stream or on a reset;
\* receiveReply returns and run() ends with check(stream, "receive reply")
ReceiveEnd ==
    /\ ecPc = "receiving"
    /\ \E state \in {"eof", "bad"} :
         /\ streamState' = state
         /\ Proceed(check(state, "receive reply"), "done")
    /\ UNCHANGED <<trace, scanVars, ecTable, ecUser, ecQuery, colOrder,
                   mkeventd, request, linesRead, headers, isHeader, connects>>
    /\ UNCHANGED rrdVars
    /\ UNCHANGED groupVars

-----------------------------------------------------------------------------
(* RRDColumnArgs: the arguments of a time-series column *)

\* next_token: the text up to the next delimiter, and the text after it; no
\* token once the text is used up
next_token(scan, delim) ==
    IF scan = "" THEN [some |-> FALSE, tok |-> "", scan |-> ""]
    ELSE LET at == FindChar(scan, delim, 1) IN
         IF at = 0 THEN [some |-> TRUE, tok |-> scan, scan |-> ""]
         ELSE [some |-> TRUE, tok |-> SubSeq(scan, 1, at - 1), scan |-> substr(scan, at)]

\* the lambda invalid: construction ends with std::runtime_error
Invalid(message) ==
    [valid |-> FALSE, error |-> message, rpn |-> "", start_time |-> 0,
     end_time |-> 0, resolution |-> 0, max_entries |-> 0]

\* RRDColumnArgs::RRDColumnArgs, with a check of the fifth field that accepts
\* every number
RRDColumnArgs_anyMaxEntries(arguments) ==
    LET rpn == next_token(arguments, ":")
        start_time == next_token(rpn.scan, ":")
        end_time == next_token(start_time.scan, ":")
        resolution == next_token(end_time.scan, ":")
        fifth == next_token(resolution.scan, ":")
        max_entries == IF fifth.some THEN fifth.tok ELSE "400"
        sixth == next_token(fifth.scan, ":")
    IN IF ~rpn.some \/ rpn.tok = ""
       THEN Invalid("missing RPN expression for RRD")
       ELSE IF ~start_time.some \/ start_time.tok = "" \/ atol(start_time.tok) <= 0
       THEN Invalid("missing, negative or overflowed start time")
       ELSE IF ~end_time.some \/ end_time.tok = "" \/ atol(end_time.tok) <= 0
       THEN Invalid(" missing, negative or overflowed end time")
       ELSE IF ~resolution.some \/ resolution.tok = "" \/ atoi(resolution.tok) <= 0
       THEN Invalid("missing or negative resolution")
       ELSE IF max_entries = ""
       THEN Invalid("Wrong input for max rows")
       ELSE IF sixth.some
       THEN Invalid("too many arguments")
       ELSE [valid |-> TRUE, error |-> "", rpn |-> rpn.tok,
             start_time |-> atol(start_time.tok), end_time |-> atol(end_time.tok),
             resolution |-> atoi(resolution.tok), max_entries |-> atoi(max_entries)]

\* RRDColumnArgs::RRDColumnArgs that takes the first number for both times
RRDColumnArgs_endIsStart(arguments) ==
    LET rpn == next_token(arguments, ":")
        start_time == next_token(rpn.scan, ":")
        end_time == next_token(start_time.scan, ":")
        resolution == next_token(end_time.scan, ":")
        fifth == next_token(resolution.scan, ":")
        max_entries == IF fifth.some THEN fifth.tok ELSE "400"
        sixth == next_token(fifth.scan, ":")
    IN IF ~rpn.some \/ rpn.tok = ""
       THEN Invalid("missing RPN expression for RRD")
       ELSE IF ~start_time.some \/ start_time.tok = "" \/ atol(start_time.tok) <= 0
       THEN Invalid("missing, negative or overflowed start time")
       ELSE IF ~end_time.some \/ end_time.tok = "" \/ atol(end_time.tok) <= 0
       THEN Invalid(" missing, negative or overflowed end time")
       ELSE IF ~resolution.some \/ resolution.tok = "" \/ atoi(resolution.tok) <= 0
       THEN Invalid("missing or negative resolution")
       ELSE IF max_entries = "" \/ atoi(max_entries) < 10
       THEN Invalid("Wrong input for max rows")
       ELSE IF sixth.some
       THEN Invalid("too many arguments")
       ELSE [valid |-> TRUE, error |-> "", rpn |-> rpn.tok,
             start_time |-> atol(start_time.tok), end_time |-> atol(start_time.tok),
             resolution |-> atoi(resolution.tok), max_entries |-> atoi(max_entries)]

\* RRDColumnArgs::RRDColumnArgs: the fields are taken and checked one after
\* the other, and the first check that fails ends the construction
RRDColumnArgs(arguments) ==
    LET rpn == next_token(arguments, ":")
        start_time == next_token(rpn.scan, ":")
        end_time == next_token(start_time.scan, ":")
        resolution == next_token(end_time.scan, ":")
        fifth == next_token(resolution.scan, ":")
        max_entries == IF fifth.some THEN fifth.tok ELSE "400"
        sixth == next_token(fifth.scan, ":")
    IN IF ~rpn.some \/ rpn.tok = ""
       THEN Invalid("missing RPN expression for RRD")
       ELSE IF ~start_time.some \/ start_time.tok = "" \/ atol(start_time.tok) <= 0
       THEN Invalid("missing, negative or overflowed start time")
       ELSE IF ~end_time.some \/ end_time.tok = "" \/ atol(end_time.tok) <= 0
       THEN Invalid(" missing, negative or overflowed end time")
       ELSE IF ~resolution.some \/ resolution.tok = "" \/ atoi(resolution.tok) <= 0
       THEN Invalid("missing or negative resolution")
       ELSE IF max_entries = "" \/ atoi(max_entries) < 10
       THEN Invalid("Wrong input for max rows")
       ELSE IF sixth.some
       THEN Invalid("too many arguments")
       ELSE [valid |-> TRUE, error |-> "", rpn |-> rpn.tok,
             start_time |-> atol(start_time.tok), end_time |-> atol(end_time.tok),
             resolution |-> atoi(resolution.tok), max_entries |-> atoi(max_entries)]

\* an argument string written from its fields, a colon between two fields
RECURSIVE EncodeArguments(_)
EncodeArguments(fields) ==
    IF Len(fields) = 0 THEN ""
    ELSE IF Len(fields) = 1 THEN fields[1]
    ELSE fields[1] \o ":" \o EncodeArguments(Tail(fields))

-----------------------------------------------------------------------------
(* RRDDataMaker::make: the export request *)

\* token[0]: the terminating NUL for an empty token, written ""
FirstChar(token) == IF token = "" THEN "" ELSE SubSeq(token, 1, 1)

\* isVariableName: strchr finds the terminating NUL too, so the first
\* character of an empty token counts as an operator
is_operator(ch) == ch \in {"+", "-", "/", "*", ""}
is_number_part(ch) ==
    ch \in {"0", "1", "2", "3", "4", "5", "6", "7", "8", "9", "."}
isVariableName(token) ==
    ~(\/ is_operator(FirstChar(token))
      \/ \A i \in 1..Len(token) : is_number_part(SubSeq(token, i, i)))

\* replace_all, from position i on
RECURSIVE replace_all_from(_, _, _, _)
replace_all_from(str, chars, replacement, i) ==
    IF i > Len(str) THEN ""
    ELSE (IF FindChar(chars, SubSeq(str, i, i), 1) # 0
          THEN replacement ELSE SubSeq(str, i, i))
             \o replace_all_from(str, chars, replacement, i + 1)

replace_all(str, chars, replacement) == replace_all_from(str, chars, replacement, 1)

\* std::string::find_last_of for one character; 0 for npos, else the position
\* counted from 1
find_last_of(str, ch) ==
    LET hits == {k \in 1..Len(str) : SubSeq(str, k, k) = ch} IN
    IF hits = {} THEN 0 ELSE CHOOSE k \in hits : \A j \in hits : j <= k

\* getVarAndCF: the metric's name and its consolidation function
getVarAndCF(str) ==
    LET dot_pos == find_last_of(str, ".")
        head == SubSeq(str, 1, dot_pos - 1)
        tail == SubSeq(str, dot_pos, Len(str))
    IN IF dot_pos # 0 /\ tail = ".max" THEN [var |-> head, cf |-> "MAX"]
       ELSE IF dot_pos # 0 /\ tail = ".min" THEN [var |-> head, cf |-> "MIN"]
       ELSE IF dot_pos # 0 /\ tail = ".average" THEN [var |-> head, cf |-> "AVERAGE"]
       ELSE [var |-> str, cf |-> "MAX"]

\* the metrics an RRD can hold, and where: two share a file, one has a file
\* and no data source name
MetricNames == {"fs_used", "user", "var_1"}
NoLocation == [path_ |-> "", data_source_name_ |-> ""]
RRDLocation(var) ==
    CASE var = "fs_used" -> [path_ |-> "/rrd/h1_s1.rrd", data_source_name_ |-> "1"]
      [] var = "user" -> [path_ |-> "/rrd/h1_s1.rrd", data_source_name_ |-> "2"]
      [] var = "var_1" -> [path_ |-> "/rrd/h1_s2.rrd", data_source_name_ |-> "1"]
      [] var = "cpu.load" -> [path_ |-> "/rrd/h1_s3.rrd", data_source_name_ |-> ""]
      [] OTHER -> NoLocation

\* MonitoringCore::metricLocation; metrics are those with an RRD
metricLocation(metrics, var) ==
    IF var \in metrics \/ var = "cpu.load" THEN RRDLocation(var) ELSE NoLocation

\* make's local state before the loop over the RPN's tokens
MakeLocals ==
    [converted_rpn |-> "", next_variable_number |-> 0, defs |-> <<>>,
     touched_rrds |-> {}]

\* make's loop body with a variable number spent on every variable-like token
make_token_numbersUnresolved(metrics, token, loc) ==
    LET joined == IF loc.converted_rpn # ""
                  THEN loc.converted_rpn \o "," ELSE loc.converted_rpn
        vc == getVarAndCF(token)
        location == metricLocation(metrics, vc.var)
        number == loc.next_variable_number + 1
        rrd_varname == "var_" \o ToString(number)
    IN IF ~isVariableName(token)
       THEN [loc EXCEPT !.converted_rpn = joined \o token]
       ELSE IF location.path_ = "" \/ location.data_source_name_ = ""
       THEN [loc EXCEPT !.converted_rpn = joined \o replace_all(vc.var, ".", "_"),
                        !.next_variable_number = number]
       ELSE [converted_rpn |-> joined \o rrd_varname,
             next_variable_number |-> number,
             defs |-> Append(loc.defs,
                             "DEF:" \o rrd_varname \o "=" \o location.path_ \o ":"
                                 \o location.data_source_name_ \o ":" \o vc.cf),
             touched_rrds |-> loc.touched_rrds \cup {location.path_}]

\* the body of make's loop for one token
make_token(metrics, token, loc) ==
    LET joined == IF loc.converted_rpn # ""
                  THEN loc.converted_rpn \o "," ELSE loc.converted_rpn
        vc == getVarAndCF(token)
        location == metricLocation(metrics, vc.var)
        number == loc.next_variable_number + 1
        rrd_varname == "var_" \o ToString(number)
    IN IF ~isVariableName(token)
       THEN [loc EXCEPT !.converted_rpn = joined \o token]
       ELSE IF location.path_ = "" \/ location.data_source_name_ = ""
       THEN [loc EXCEPT !.converted_rpn = joined \o replace_all(vc.var, ".", "_")]
       ELSE [converted_rpn |-> joined \o rrd_varname,
             next_variable_number |-> number,
             defs |-> Append(loc.defs,
                             "DEF:" \o rrd_varname \o "=" \o location.path_ \o ":"
                                 \o location.data_source_name_ \o ":" \o vc.cf),
             touched_rrds |-> loc.touched_rrds \cup {location.path_}]

\* make's loop: while (const char *tok = next_token(&scan, ','))
RECURSIVE make_loop(_, _, _)
make_loop(metrics, scan, loc) ==
    LET t == next_token(scan, ",") IN
    IF ~t.some THEN loc
    ELSE make_loop(metrics, t.scan, make_token(metrics, t.tok, loc))

\* the arguments make starts the request with
make_argv_head(args) ==
    <<"rrdtool xport", "-s", ToString(args.start_time), "-e", ToString(args.end_time),
      "--step", ToString(args.resolution)>>
        \o (IF args.max_entries > 0
            THEN <<"-m", ToString(args.max_entries)>> ELSE <<>>)

\* argv_s with the export named before the expression it exports
make_argv_exportFirst(args, loc) ==
    make_argv_head(args) \o <<"XPORT:xxx:">> \o loc.defs
        \o <<"CDEF:xxx=" \o loc.converted_rpn>>

\* argv_s when the loop is done: the DEFs, then the CDEF and the XPORT
make_argv(args, loc) ==
    make_argv_head(args) \o loc.defs
        \o <<"CDEF:xxx=" \o loc.converted_rpn, "XPORT:xxx:">>

-----------------------------------------------------------------------------
(* RRDDataMaker::make: the flush, the export and the result *)

\* the largest time_t of the model; time_t is signed
TimeMax == 15
\* most samples the loop reads past the buffer before the process dies
MaxOverread == 2

\* the conversion of an unsigned sum back to time_t
ToTimeT(x) ==
    LET m == 2 * (TimeMax + 1)
        r == x % m
    IN IF r > TimeMax THEN r - m ELSE r

\* as_vector with the times as they are
as_vector_noOffset(d, offset) == <<d.start, d.end, d.step>> \o d.values

\* a default-constructed Data, and Data::as_vector
Data == [start |-> 0, end |-> 0, step |-> 0, values |-> <<>>]
as_vector(d, offset) == <<d.start + offset, d.end + offset, d.step>> \o d.values

\* the paths of the model in the order a std::set<std::string> iterates them
SetInOrder(paths) ==
    SelectSeq(<<"/rrd/h1_s1.rrd", "/rrd/h1_s2.rrd", "/rrd/h1_s3.rrd">>,
              LAMBDA p : p \in paths)

\* the flush request
daemon_argv_s(socket, touched) ==
    <<"rrdtool flushcached", "--daemon", socket>> \o SetInOrder(touched)

\* the buffers rrd_xport hands over
LegendName(j) == "legend_v[" \o ToString(j) \o "]"
XportBuffers(col_cnt) ==
    {"legend_v", "rrd_data"} \cup {LegendName(j) : j \in 0..(col_cnt - 1)}

\* what rrd_xport leaves in make's locals: nothing when it fails, else the
\* interval, the step, the column count and (end - start) / step rows of
\* col_cnt values each
NoExport ==
    [status |-> 0, start |-> 0, end |-> 0, step |-> 0, col_cnt |-> 0,
     rrd_data |-> <<>>, buffers |-> {}]
XportFailure == [NoExport EXCEPT !.status = -1]
XportSuccess(s, e, p, c) ==
    LET rows == IF p > 0 /\ e >= s THEN (e - s) \div p ELSE 0 IN
    [status |-> 0, start |-> s, end |-> e, step |-> p, col_cnt |-> c,
     rrd_data |-> [k \in 1..(rows * c) |-> 100 + k],
     buffers |-> XportBuffers(c)]
XportOutcomes ==
    {XportFailure}
        \cup {XportSuccess(s, e, p, c) :
                s \in {0, 2, TimeMax - 2}, e \in {1, 4, TimeMax},
                p \in {0, 1, 2, 3}, c \in {0, 1, 2}}

\* the copy loop's first ti: time_t ti = start + step
loop_start_atStart(start, step) == start
loop_start(start, step) == ToTimeT(start + step)

\* the free calls without the legend's strings
release_onlyArrays(col_cnt) == <<"legend_v", "rrd_data">>

\* the free calls without the sample buffer
release_keepsData(col_cnt) ==
    [j \in 1..col_cnt |-> LegendName(j - 1)] \o <<"legend_v">>

\* the free calls at make's end
release(col_cnt) ==
    [j \in 1..col_cnt |-> LegendName(j - 1)] \o <<"legend_v", "rrd_data">>

TimezoneOffsets == {-3600, 0, 7200}

\* make's state before the flush
ExportIdle ==
    /\ pnp4nagios = FALSE
    /\ rrdcached_socket = ""
    /\ rrdCalls = <<>>
    /\ rrdLog = <<>>
    /\ xport = NoExport
    /\ freeCalls = <<>>
    /\ data = Data
    /\ ti = 0
    /\ ptr = 1
    /\ overread = 0
    /\ rrdResult = <<>>

-----------------------------------------------------------------------------
(* Queries *)

\* iteration orders of a column set: by name, ascending or descending
ColumnsByName ==
    <<"event_contact_groups", "event_contact_groups_precedence", "event_host",
      "event_id", "event_text", "history_line", "history_time", "host_name",
      "rule_hits", "rule_id">>
Reverse(seq) == [i \in 1..Len(seq) |-> seq[Len(seq) + 1 - i]]
ColumnOrders == {ColumnsByName, Reverse(ColumnsByName)}

\* values of Filter: lines
FilterValues == {"5", "07"}

Leaves(cols, opers) ==
    {ColumnFilter(c, o, v) : c \in cols, o \in opers, v \in FilterValues}

\* the filter of a query with the Filter: lines fs
QueryFilter(fs) == AndingFilter_make(fs)

\* no Filter: line, one, two, and two joined by "Or: 2"
FlatFilters(leaves) ==
    {QueryFilter(<<>>)}
        \cup {QueryFilter(<<a>>) : a \in leaves}
        \cup {QueryFilter(<<a, b>>) : a \in leaves, b \in leaves}
        \cup {QueryFilter(<<OringFilter_make(<<a, b>>)>>) : a \in leaves, b \in leaves}

\* three Filter: lines joined by "Or: 2" and "And: 2" in both nestings
NestedFilters(leaves) ==
    {QueryFilter(<<a, OringFilter_make(<<b, c>>)>>) :
         a \in leaves, b \in leaves, c \in leaves}
        \cup {QueryFilter(<<OringFilter_make(<<a, AndingFilter_make(<<b, c>>)>>)>>) :
                  a \in leaves, b \in leaves, c \in leaves}

BoundingOps == {"equal", "greater_or_equal", "less"}

\* the queries of a table.  History: its filters in full, one column
\* requested.  Events and rules: the columns in full, at most one filter.
QueriesFor(table) ==
    CASE table = TableEventConsoleHistory ->
           {[columns |-> {"history_line"}, filter |-> f] :
              f \in FlatFilters(Leaves({"history_time", "event_id", "event_text"},
                                       RelationalOperators))
                    \cup NestedFilters(Leaves({"history_time", "event_id", "event_text"},
                                              BoundingOps))}
      [] table = TableEventConsoleEvents ->
           {[columns |-> cs, filter |-> QueryFilter(fs)] :
              cs \in (SUBSET {"event_text", "event_host", "host_name"}) \ {{}},
              fs \in {<<>>} \cup {<<a>> : a \in Leaves({"event_id", "host_name"},
                                                       {"equal", "not_equal"})}}
      [] table = TableEventConsoleRules ->
           {[columns |-> cs, filter |-> QueryFilter(fs)] :
              cs \in (SUBSET table.columns) \ {{}},
              fs \in {<<>>} \cup {<<a>> : a \in Leaves({"rule_id", "rule_hits"},
                                                       {"equal", "greater"})}}

\* the query the bridge runs with
BridgeQuery(table) ==
    IF table = TableEventConsoleRules
    THEN [columns |-> {"rule_id"}, filter |-> QueryFilter(<<>>)]
    ELSE [columns |-> {"event_id", "host_name"},
          filter |-> QueryFilter(<<ColumnFilter("event_id", "equal", "5")>>)]

-----------------------------------------------------------------------------
(* A time-series column: its arguments are decoded, then make builds the
   export request *)

MaxFields == 6
MaxTokens == 3

\* what the i-th field of an argument string can hold
FieldChoice(i) ==
    CASE i = 1 -> {"", "a,1,/"}
      [] i = 2 -> {"", "0", "5", "-3"}
      [] i = 3 -> {"", "0", "7"}
      [] i = 4 -> {"", "0", "12", "x"}
      [] i = 5 -> {"", "9", "10", "400"}
      [] OTHER -> {"", "x"}

\* the sequences of n fields
RECURSIVE FieldSeqs(_)
FieldSeqs(n) ==
    IF n = 0 THEN {<<>>}
    ELSE {Append(s, f) : s \in FieldSeqs(n - 1), f \in FieldChoice(n)}

\* the tokens of an RPN: metrics, with and without a consolidation function,
\* a number, an operator and the empty token
RpnTokens ==
    {"fs_used", "fs_used.min", "user.max", "user.average", "var_1", "cpu.load.min",
     "1024", "*", ""}

RECURSIVE TokenSeqs(_)
TokenSeqs(n) ==
    IF n = 0 THEN {<<>>}
    ELSE {Append(s, t) : s \in TokenSeqs(n - 1), t \in RpnTokens}

\* an RPN written from its tokens, a comma between two tokens
RECURSIVE EncodeRpn(_)
EncodeRpn(tokens) ==
    IF Len(tokens) = 0 THEN ""
    ELSE IF Len(tokens) = 1 THEN tokens[1]
    ELSE tokens[1] \o "," \o EncodeRpn(Tail(tokens))

\* the fields of the columns under study: every combination of field values
\* with a fixed RPN, and every RPN with fixed times
ArgumentFields(maxFields, maxTokens) ==
    UNION {FieldSeqs(n) : n \in 1..maxFields}
        \cup {<<EncodeRpn(ts), "5", "7", "12">> :
                ts \in UNION {TokenSeqs(n) : n \in 1..maxTokens}}

RrdOff ==
    /\ rrdFields = <<>>
    /\ rrdArguments = ""
    /\ rrdMetrics = {}
    /\ rrdArgs = Invalid("")
    /\ argv_s = <<>>
    /\ converted_rpn = ""
    /\ touched_rrds = {}
    /\ next_variable_number = 0
    /\ rrdPc = "off"
    /\ timezone_offset = 0
    /\ ExportIdle

RrdInit ==
    /\ rrdFields \in ArgumentFields(MaxFields, MaxTokens)
    /\ rrdArguments = EncodeArguments(rrdFields)
    /\ rrdMetrics \in SUBSET MetricNames
    /\ Len(rrdFields) # 4 => rrdMetrics = {}
    /\ rrdArgs = Invalid("")
    /\ argv_s = <<>>
    /\ converted_rpn = ""
    /\ touched_rrds = {}
    /\ next_variable_number = 0
    /\ rrdPc = "construct"
    /\ timezone_offset = 0
    /\ ExportIdle

\* the column is created: RRDColumnArgs decodes the arguments or throws
RrdConstruct ==
    /\ rrdPc = "construct"
    /\ rrdArgs' = RRDColumnArgs(rrdArguments)
    /\ rrdPc' = IF rrdArgs'.valid THEN "constructed" ELSE "invalid"
    /\ UNCHANGED <<queryVars, scanVars, bridgeVars, groupVars, rrdFields, rrdArguments,
                   rrdMetrics, argv_s, converted_rpn, touched_rrds,
                   next_variable_number, exportVars>>

\* make, from its entry to the complete request: the fixed arguments, the
\* loop over the RPN's tokens, the CDEF and the XPORT
RrdMakeRequest ==
    /\ rrdPc = "constructed"
    /\ LET loc == make_loop(rrdMetrics, rrdArgs.rpn, MakeLocals) IN
       /\ argv_s' = make_argv(rrdArgs, loc)
       /\ converted_rpn' = loc.converted_rpn
       /\ touched_rrds' = loc.touched_rrds
       /\ next_variable_number' = loc.next_variable_number
    /\ rrdPc' = "request"
    /\ UNCHANGED <<queryVars, scanVars, bridgeVars, groupVars, rrdFields, rrdArguments,
                   rrdMetrics, rrdArgs, exportVars>>

\* the condition under which make flushes the cache daemon
make_flushes_anySocket(enabled, socket, touched) == enabled /\ touched # {}
make_flushes(enabled, socket, touched) ==
    enabled /\ socket # "" /\ touched # {}

\* make reads the configuration and has the cache daemon flush the touched
\* RRDs, if there is a daemon and an RRD; a failure is logged
RrdFlush ==
    /\ rrdPc = "request"
    /\ \E enabled \in BOOLEAN, socket \in {"", "/run/rrdcached.sock"},
          ret \in {0, -1} :
           /\ pnp4nagios' = enabled
           /\ rrdcached_socket' = socket
           /\ IF make_flushes(enabled, socket, touched_rrds)
              THEN /\ rrdCalls' =
                          Append(rrdCalls,
                                 [fn |-> "rrd_flushcached",
                                  argv |-> daemon_argv_s(socket, touched_rrds),
                                  ret |-> ret])
                   /\ rrdLog' = IF ret # 0
                                THEN Append(rrdLog, "Warning: Error flushing RRD")
                                ELSE rrdLog
              ELSE UNCHANGED <<rrdCalls, rrdLog>>
    /\ rrdPc' = "flushed"
    /\ UNCHANGED <<queryVars, scanVars, bridgeVars, groupVars, rrdFields, rrdArguments,
                   rrdMetrics, rrdArgs, argv_s, converted_rpn, touched_rrds,
                   next_variable_number, timezone_offset, xport, freeCalls, data,
                   ti, ptr, overread, rrdResult>>

\* the export: a failure is logged and make returns an empty Data; another
\* column count than one is logged; with one column the copy loop starts
RrdExport ==
    /\ rrdPc = "flushed"
    /\ \E out \in XportOutcomes :
           /\ xport' = out
           /\ rrdCalls' = Append(rrdCalls,
                                 [fn |-> "rrd_xport", argv |-> argv_s,
                                  ret |-> out.status])
           /\ IF out.status # 0
              THEN /\ rrdLog' = Append(rrdLog, "Warning: Error accessing RRD")
                   /\ rrdResult' = as_vector(data, timezone_offset)
                   /\ rrdPc' = "returned"
                   /\ UNCHANGED <<data, ti, ptr>>
              ELSE IF out.col_cnt # 1
              THEN /\ rrdLog' = Append(rrdLog, "Error: rrd_xport returned "
                                           \o ToString(out.col_cnt) \o " columns")
                   /\ rrdPc' = "release"
                   /\ UNCHANGED <<data, ti, ptr, rrdResult>>
              ELSE /\ data' = [start |-> out.start, end |-> out.end,
                               step |-> out.step, values |-> <<>>]
                   /\ ptr' = 1
                   /\ ti' = loop_start(out.start, out.step)
                   /\ rrdPc' = "copying"
                   /\ UNCHANGED <<rrdLog, rrdResult>>
    /\ UNCHANGED <<queryVars, scanVars, bridgeVars, groupVars, rrdFields, rrdArguments,
                   rrdMetrics, rrdArgs, argv_s, converted_rpn, touched_rrds,
                   next_variable_number, timezone_offset, pnp4nagios,
                   rrdcached_socket, freeCalls, overread>>

\* one pass of the copy loop: data.values.push_back(*ptr++), ti += step.  A
\* read past the end of rrd_data is undefined: the process dies or the read
\* delivers whatever lies there
RrdCopySample ==
    /\ rrdPc = "copying"
    /\ ti <= xport.end
    /\ \/ /\ ptr <= Len(xport.rrd_data)
          /\ data' = [data EXCEPT !.values = Append(@, xport.rrd_data[ptr])]
          /\ ptr' = ptr + 1
          /\ ti' = ToTimeT(ti + xport.step)
          /\ UNCHANGED <<overread, rrdPc>>
       \/ /\ ptr > Len(xport.rrd_data)
          /\ overread < MaxOverread
          /\ \E v \in {0, 999} :
                 data' = [data EXCEPT !.values = Append(@, v)]
          /\ ptr' = ptr + 1
          /\ ti' = ToTimeT(ti + xport.step)
          /\ overread' = overread + 1
          /\ UNCHANGED rrdPc
       \/ /\ ptr > Len(xport.rrd_data)
          /\ rrdPc' = "crashed"
          /\ UNCHANGED <<data, ptr, ti, overread>>
    /\ UNCHANGED <<queryVars, scanVars, bridgeVars, groupVars, rrdFields, rrdArguments,
                   rrdMetrics, rrdArgs, argv_s, converted_rpn, touched_rrds,
                   next_variable_number, timezone_offset, pnp4nagios,
                   rrdcached_socket, rrdCalls, rrdLog, xport, freeCalls,
                   rrdResult>>

\* after the loop, or without one: the buffers are freed and data is
\* returned as a vector
RrdRelease ==
    /\ \/ rrdPc = "release"
       \/ rrdPc = "copying" /\ ti > xport.end
    /\ freeCalls' = freeCalls \o release(xport.col_cnt)
    /\ rrdResult' = as_vector(data, timezone_offset)
    /\ rrdPc' = "returned"
    /\ UNCHANGED <<queryVars, scanVars, bridgeVars, groupVars, rrdFields, rrdArguments,
                   rrdMetrics, rrdArgs, argv_s, converted_rpn, touched_rrds,
                   next_variable_number, timezone_offset, pnp4nagios,
                   rrdcached_socket, rrdCalls, rrdLog, xport, data, ti, ptr,
                   overread>>

\* the columns whose data is asked for
ExportInit ==
    /\ rrdFields \in {<<rpn, "5", "7", "12">> :
                         rpn \in {"fs_used,user.max,*", "fs_used,var_1,*", "1024",
                                  "cpu.load.min"}}
    /\ rrdArguments = EncodeArguments(rrdFields)
    /\ rrdMetrics \in {{}, MetricNames}
    /\ rrdArgs = Invalid("")
    /\ argv_s = <<>>
    /\ converted_rpn = ""
    /\ touched_rrds = {}
    /\ next_variable_number = 0
    /\ rrdPc = "construct"
    /\ timezone_offset \in TimezoneOffsets
    /\ ExportIdle

-----------------------------------------------------------------------------
(* Service groups: the member columns and the worst service state *)

\* longest member list of a group
MaxMembers == 3
\* most evaluations of a group's columns that are followed
MaxEvaluations == 3

\* the services of the core, with the fields the columns read
ServiceNames == {"ok_a", "ok_b", "warn", "crit", "unknown"}
Service(name) ==
    CASE name = "ok_a" -> [host_name |-> "h1", description |-> "ok_a",
                           current_state |-> 0, has_been_checked |-> TRUE]
      [] name = "ok_b" -> [host_name |-> "h2", description |-> "ok_b",
                           current_state |-> 0, has_been_checked |-> FALSE]
      [] name = "warn" -> [host_name |-> "h1", description |-> "warn",
                           current_state |-> 1, has_been_checked |-> TRUE]
      [] name = "crit" -> [host_name |-> "h2", description |-> "crit",
                           current_state |-> 2, has_been_checked |-> TRUE]
      [] OTHER -> [host_name |-> "h1", description |-> "unknown",
                   current_state |-> 3, has_been_checked |-> TRUE]

\* User::is_authorized_for_service, an external collaborator: the user is the
\* set of services it may see
is_authorized_for_service(usr, svc) == svc.description \in usr

\* the entry the getter makes of a service
Entry(svc) ==
    [host_name |-> svc.host_name, description |-> svc.description,
     current_state |-> svc.current_state,
     has_been_checked |-> svc.has_been_checked]

\* the getter without the authorization check
RECURSIVE ServiceGroupMembersGetter_noAuth(_, _)
ServiceGroupMembersGetter_noAuth(members, usr) ==
    IF members = <<>> THEN <<>>
    ELSE <<Entry(Service(Head(members)))>>
             \o ServiceGroupMembersGetter_noAuth(Tail(members), usr)

\* ServiceGroupMembersGetter::operator(): the loop over sm.members, from mem on
RECURSIVE ServiceGroupMembersGetter(_, _)
ServiceGroupMembersGetter(members, usr) ==
    IF members = <<>> THEN <<>>
    ELSE LET svc == Service(Head(members)) IN
         (IF is_authorized_for_service(usr, svc) THEN <<Entry(svc)>> ELSE <<>>)
             \o ServiceGroupMembersGetter(Tail(members), usr)

\* the order of the states for "worst": OK <= WARN <= UNKNOWN <= CRIT, over
\* the states OK 0, WARN 1, CRIT 2, UNKNOWN 3
worse_byMagnitude(state1, state2) == state1 > state2
worse(state1, state2) ==
    LET rank(s) == CASE s = 0 -> 0 [] s = 1 -> 1 [] s = 3 -> 2 [] OTHER -> 3
    IN rank(state1) > rank(state2)

\* the reducer's step for worst_state: authorized services only
ServiceListState_update(svc, usr, result) ==
    IF is_authorized_for_service(usr, svc) /\ worse(svc.current_state, result)
    THEN svc.current_state ELSE result

\* ServiceListState{Type::worst_state} applied to a group: the fold over its
\* members, from the best state
RECURSIVE ServiceListState_fold(_, _, _)
ServiceListState_fold(members, usr, result) ==
    IF members = <<>> THEN result
    ELSE ServiceListState_fold(Tail(members), usr,
                               ServiceListState_update(Service(Head(members)), usr, result))
ServiceListState_worst_state(members, usr) == ServiceListState_fold(members, usr, 0)

GroupOff ==
    /\ sgMembers = <<>>
    /\ sgUser = {}
    /\ sgLog = <<>>
    /\ sgPc = "off"

GroupInit ==
    /\ sgMembers \in DistinctSeqs(ServiceNames, MaxMembers - 1)
    /\ sgUser \in {ServiceNames, {}, ServiceNames \ {"crit"}, {"ok_a", "ok_b", "crit"}}
    /\ sgLog = <<>>
    /\ sgPc = "changed"

\* a row of the group is rendered: the columns members, members_with_state
\* and worst_service_state are evaluated for the user
GroupEvaluate ==
    /\ sgPc = "changed"
    /\ Len(sgLog) < MaxEvaluations
    /\ sgLog' = Append(sgLog,
                       [group |-> sgMembers,
                        members |-> ServiceGroupMembersGetter(sgMembers, sgUser),
                        members_with_state |->
                            ServiceGroupMembersGetter(sgMembers, sgUser),
                        worst_service_state |->
                            ServiceListState_worst_state(sgMembers, sgUser)])
    /\ sgPc' = "evaluated"
    /\ UNCHANGED <<queryVars, scanVars, bridgeVars, rrdVars, sgMembers, sgUser>>

\* between two queries the core gets a further member for the group
GroupAddMember ==
    /\ sgPc = "evaluated"
    /\ Len(sgLog) < MaxEvaluations
    /\ Len(sgMembers) < MaxMembers
    /\ \E name \in ServiceNames \ Range(sgMembers) :
           sgMembers' = Append(sgMembers, name)
    /\ sgPc' = "changed"
    /\ UNCHANGED <<queryVars, scanVars, bridgeVars, rrdVars, sgUser, sgLog>>

\* between two queries the core drops a member of the group
GroupRemoveMember ==
    /\ sgPc = "evaluated"
    /\ Len(sgLog) < MaxEvaluations
    /\ \E i \in 1..Len(sgMembers) :
           sgMembers' = SubSeq(sgMembers, 1, i - 1)
                            \o SubSeq(sgMembers, i + 1, Len(sgMembers))
    /\ sgPc' = "changed"
    /\ UNCHANGED <<queryVars, scanVars, bridgeVars, rrdVars, sgUser, sgLog>>

-----------------------------------------------------------------------------
(* Specifications *)

QueryInit ==
    /\ trace = <<>>
    /\ gateway = <<>>

BridgeOff ==
    /\ ecTable = TableEventConsoleRules
    /\ ecUser = "none"
    /\ ecQuery = BridgeQuery(TableEventConsoleRules)
    /\ colOrder = ColumnsByName
    /\ mkeventd = FALSE
    /\ ecPc = "off"
    /\ request = ""
    /\ linesRead = <<>>
    /\ streamState = "good"
    /\ headers = <<>>
    /\ isHeader = TRUE
    /\ connects = 0
    /\ escaped = FALSE

\* a local table answers a query
InitScan == QueryInit /\ ScanInit /\ BridgeOff /\ RrdOff /\ GroupOff
NextScan == ServiceGroupsStep \/ CommandsStep \/ ScanEnd
SpecScan == InitScan /\ [][NextScan]_vars

\* TableEventConsole::answerQuery
InitBridge ==
    /\ QueryInit
    /\ ScanOff
    /\ ecTable \in ECTables
    /\ ecUser \in Users
    /\ ecQuery = BridgeQuery(ecTable)
    /\ colOrder = ColumnsByName
    /\ mkeventd \in BOOLEAN
    /\ ecPc = "start"
    /\ request = ""
    /\ linesRead = <<>>
    /\ streamState = "good"
    /\ headers = <<>>
    /\ isHeader = TRUE
    /\ connects = 0
    /\ escaped = FALSE
    /\ RrdOff
    /\ GroupOff
NextBridge ==
    AnswerQueryDisabled \/ RunConnect \/ RunSend \/ ReceiveLine \/ ReceiveEnd
SpecBridge == InitBridge /\ [][NextBridge]_vars

\* sendRequest on a connection just made, for every table, query and order
InitRequest ==
    /\ QueryInit
    /\ ScanOff
    /\ ecTable \in ECTables
    /\ ecUser = "all"
    /\ ecQuery \in QueriesFor(ecTable)
    /\ colOrder \in ColumnOrders
    /\ ecTable = TableEventConsoleHistory => colOrder = ColumnsByName
    /\ mkeventd = TRUE
    /\ ecPc = "connected"
    /\ request = ""
    /\ linesRead = <<>>
    /\ streamState = "good"
    /\ headers = <<>>
    /\ isHeader = TRUE
    /\ connects = 1
    /\ escaped = FALSE
    /\ RrdOff
    /\ GroupOff
NextRequest == RunSend
SpecRequest == InitRequest /\ [][NextRequest]_vars

\* a time-series column is created and asked for its data
InitRRD == QueryInit /\ ScanOff /\ BridgeOff /\ RrdInit /\ GroupOff
NextRRD == RrdConstruct \/ RrdMakeRequest
SpecRRD == InitRRD /\ [][NextRRD]_vars

\* a time-series column is created and make runs to its end; once make has
\* built its request, the thread that runs it keeps running
InitExport == QueryInit /\ ScanOff /\ BridgeOff /\ ExportInit /\ GroupOff
NextExport ==
    \/ RrdConstruct
    \/ RrdMakeRequest
    \/ RrdFlush
    \/ RrdExport
    \/ RrdCopySample
    \/ RrdRelease
SpecExport == InitExport /\ [][NextExport]_vars
MakeRuns == RrdFlush \/ RrdExport \/ RrdCopySample \/ RrdRelease
SpecExportFair == SpecExport /\ WF_vars(MakeRuns)

\* the columns of a service group are evaluated, the group changes, they are
\* evaluated again
InitGroup == QueryInit /\ ScanOff /\ BridgeOff /\ RrdOff /\ GroupInit
NextGroup == GroupEvaluate \/ GroupAddMember \/ GroupRemoveMember
SpecGroup == InitGroup /\ [][NextGroup]_vars

-----------------------------------------------------------------------------
(* Properties of the local table scans *)

\* the rows of a sequence of events
Rows(events) == [i \in 1..Len(events) |-> events[i].row]

\* C1: in a local table scan, a false return of processDataset ends the scan:
\* the call that returned false is the last call the query receives (no later
\* row is authorization-checked or passed to processDataset), the scan is
\* over, and if it was the k-th row passed to processDataset then exactly k
\* rows were passed.
C1_ScanStopsOnFalse ==
    \A i \in 1..Len(trace) :
        (trace[i].type = "data" /\ ~trace[i].res) =>
            /\ i = Len(trace)
            /\ scanPc = "done"
            /\ DataEvents[Len(DataEvents)] = trace[i]
            /\ \A k \in 1..(Len(DataEvents) - 1) : DataEvents[k].res

\* a scan of service groups stopped by the second row passed, with a group
\* of the list not yet visited
C1_Witness ==
    /\ scanTable = "servicegroups"
    /\ scanPc = "done"
    /\ Len(DataEvents) = 2
    /\ ~DataEvents[2].res
    /\ scanPos < Len(scanRows)

\* C2: TableServiceGroups passes exactly the authorized groups to
\* processDataset, in list order; an unauthorized group is checked, skipped
\* and does not end the scan, which goes through the list until processDataset
\* returns false.
C2_OnlyAuthorizedGroups ==
    scanTable = "servicegroups" =>
        LET visited == SubSeq(scanRows, 1, Len(AuthEvents)) IN
        /\ Rows(AuthEvents) = visited
        /\ \A i \in 1..Len(AuthEvents) :
               AuthEvents[i].res = (AuthEvents[i].row \in scanUser)
        /\ Rows(DataEvents) = SelectSeq(visited, LAMBDA g : g \in scanUser)
        /\ scanPc = "done" =>
               \/ Len(visited) = Len(scanRows)
               \/ DataEvents # <<>> /\ ~DataEvents[Len(DataEvents)].res

\* a finished scan that skipped an unauthorized group and passed a later one
C2_Witness ==
    /\ scanTable = "servicegroups"
    /\ scanPc = "done"
    /\ \E i, j \in 1..Len(trace) :
         /\ i < j
         /\ trace[i].type = "auth" /\ ~trace[i].res
         /\ trace[j].type = "data"

-----------------------------------------------------------------------------
(* Properties of the event console bridge's reply handling *)

\* what the claim expects of the authorization of a record
ExpectedAuthorized(line) ==
    IF "event_contact_groups_precedence" \in ecTable.columns
    THEN LET fields == split(line, "\t")
             at(name) == IF \E i \in 1..Min(Len(headers), Len(fields)) : headers[i] = name
                         THEN fields[CHOOSE i \in 1..Min(Len(headers), Len(fields)) :
                                       /\ headers[i] = name
                                       /\ \A j \in 1..Min(Len(headers), Len(fields)) :
                                              headers[j] = name => j <= i]
                         ELSE ""
         IN is_authorized_for_event(
                ecUser, at("event_contact_groups_precedence"),
                at("event_contact_groups"),
                IF at("event_host") \in KnownHosts THEN at("event_host") ELSE "")
    ELSE TRUE

\* C3: every record that reaches processDataset was checked by the local
\* authorization predicate just before and accepted by it.  For a table with
\* the column event_contact_groups_precedence the predicate is
\* user.is_authorized_for_event on the record's precedence, contact groups and
\* derived host; for a table without it every record is accepted.
C3_BridgeAuthorizes ==
    \A i \in 1..Len(trace) :
        /\ trace[i].type = "auth" => trace[i].res = ExpectedAuthorized(trace[i].row)
        /\ trace[i].type = "data" =>
               /\ i > 1
               /\ trace[i - 1] = AuthEvent(trace[i].row, TRUE)
               /\ ExpectedAuthorized(trace[i].row)

\* the events table and a user authorized by contact group: one record was
\* refused, another reached the query
C3_Witness ==
    /\ ecTable = TableEventConsoleEvents
    /\ ecUser = "byGroups"
    /\ headers = split(HeaderLine, "\t")
    /\ \E i \in 1..Len(trace) : trace[i].type = "auth" /\ ~trace[i].res
    /\ \E i \in 1..Len(trace) : trace[i].type = "data"

\* the records of the reply read so far: the non-empty lines after the header
RecordsRead == SelectSeq(Tail(linesRead), LAMBDA l : l # "")

\* C4: receiveReply checks each record once, in reply order, and hands the
\* accepted ones to processDataset in that order; it stops reading at the
\* first empty line, at the end or failure of the stream, or when
\* processDataset returns false: nothing is read, checked or passed after it.
C4_ReplyOrderAndStop ==
    /\ linesRead # <<>> => Rows(AuthEvents) = RecordsRead
    /\ linesRead = <<>> => trace = <<>>
    /\ Rows(DataEvents) = Rows(SelectSeq(AuthEvents, LAMBDA e : e.res))
    /\ \A i \in 1..Len(linesRead) :
           linesRead[i] = "" => i = Len(linesRead) /\ ecPc # "receiving"
    /\ streamState \in {"eof", "bad"} => ecPc # "receiving"
    /\ \A i \in 1..Len(trace) :
           (trace[i].type = "data" /\ ~trace[i].res) =>
               /\ i = Len(trace)
               /\ trace[i].row = linesRead[Len(linesRead)]
               /\ ecPc # "receiving"

\* processDataset returned false for the second record it was given while
\* the stream could have delivered more
C4_Witness ==
    /\ ecPc = "done"
    /\ streamState = "good"
    /\ Len(DataEvents) >= 1
    /\ ~DataEvents[Len(DataEvents)].res
    /\ Len(linesRead) < MaxReplyLines

\* a malformed reply: it has no header line, or a record with more fields
\* than the header names
MalformedReply ==
    \/ linesRead # <<>> /\ linesRead[1] = ""
    \/ \E i \in 2..Len(linesRead) :
         linesRead[i] # "" /\ Len(split(linesRead[i], "\t")) > Len(headers)

\* C5 as claimed: when the connection fails (refused, reset or a malformed
\* reply), answerQuery reports it through badGateway exactly once, lets no
\* exception escape and connects only once.
C5_Original ==
    (ecPc = "done" /\ (streamState = "bad" \/ MalformedReply)) =>
        /\ Len(gateway) = 1
        /\ ~escaped
        /\ connects = 1

\* C5, amended: answerQuery reports through badGateway exactly once when run()
\* raises, that is when the stream has failed after the connect, after the
\* request was sent or after the reply was received; then and otherwise no
\* exception escapes and there is at most one connection attempt.  A
\* malformed reply alone is not reported.
C5_GatewayOnceNoRetry ==
    /\ Len(gateway) <= 1
    /\ connects <= 1
    /\ ~escaped
    /\ ~mkeventd => connects = 0 /\ gateway = <<>>
    /\ ecPc = "done" =>
           /\ streamState = "bad" <=> Len(gateway) = 1
           /\ MalformedReply /\ streamState # "bad" => gateway = <<>>
    /\ \A i \in 1..Len(gateway) :
           gateway[i] \in {"cannot connect", "cannot send request",
                           "cannot receive reply"}

\* the connection was reset after a record had reached the query
C5_Witness ==
    /\ ecPc = "done"
    /\ streamState = "bad"
    /\ DataEvents # <<>>
    /\ gateway = <<"cannot receive reply">>
    /\ connects = 1

-----------------------------------------------------------------------------
(* Properties of the request *)

RequestLines == TextLines(request)

\* the name a table goes by on the event console's side
RemoteName(table) ==
    CASE table = TableEventConsoleEvents -> "events"
      [] table = TableEventConsoleHistory -> "history"
      [] table = TableEventConsoleRules -> "rules"

\* the text ends with an empty line: two line ends in a row
EndsWithBlankLine(text) ==
    /\ Len(text) >= 2
    /\ SubSeq(text, Len(text) - 1, Len(text)) = "\n\n"

\* GET, OutputFormat, Columns, then only Filter lines, those of history_time
\* first
DirectivesInOrder(lines) ==
    /\ Len(lines) >= 3
    /\ lines[1] = "GET " \o RemoteName(ecTable)
    /\ lines[2] = "OutputFormat: plain"
    /\ starts_with(lines[3], "Columns:")
    /\ \A i \in 4..Len(lines) : starts_with(lines[i], "Filter: ")
    /\ \A i, j \in 4..Len(lines) :
           (/\ starts_with(lines[i], "Filter: history_time ")
            /\ ~starts_with(lines[j], "Filter: history_time ")) => i < j

\* C6 as claimed: the directives come in order, each on its own line, and a
\* blank line terminates the request.
C6_Original ==
    ecPc = "receiving" =>
        /\ DirectivesInOrder(RequestLines)
        /\ EndsWithBlankLine(request)

\* C6, amended: the directives come in order, each on its own line: GET,
\* OutputFormat: plain, Columns:, then the Filter: lines, history_time first;
\* the request ends with the line end of its last directive and holds no
\* blank line.
C6_RequestLayout ==
    request # "" =>
        /\ DirectivesInOrder(RequestLines)
        /\ SubSeq(request, Len(request), Len(request)) = "\n"
        /\ ~EndsWithBlankLine(request)
        /\ \A i \in 1..Len(RequestLines) : RequestLines[i] # ""

\* a request with a history_time filter and a filter of the allow-list
C6_Witness ==
    /\ request # ""
    /\ \E i, j \in 4..Len(RequestLines) :
         /\ starts_with(RequestLines[i], "Filter: history_time ")
         /\ starts_with(RequestLines[j], "Filter: event_")

\* the names on the Columns: line of the request
ColumnsRequested ==
    IF Len(RequestLines) < 3 THEN {}
    ELSE Range(split(substr(RequestLines[3], Len("Columns:")), " ")) \ {""}

\* a column joined from the hosts table: its name begins with host_
HostJoined(c) == Len(c) >= 5 /\ SubSeq(c, 1, 5) = "host_"

\* C7: the Columns: line never holds a column whose name starts with host_,
\* and holds every other column the query uses.
C7_ColumnsWithoutHost ==
    request # "" =>
        LET sent == ColumnsRequested IN
        /\ \A c \in sent : ~HostJoined(c)
        /\ \A c \in allColumns(ecQuery) : ~HostJoined(c) => c \in sent

\* the query uses host_name and event_host; only event_host is sent
C7_Witness ==
    /\ request # ""
    /\ {"host_name", "event_host"} \subseteq allColumns(ecQuery)
    /\ LET sent == ColumnsRequested IN
       "event_host" \in sent /\ "host_name" \notin sent

\* C8 as claimed: the three internal columns are on the Columns: line for
\* every event console table and every query.
C8_Original ==
    ecPc = "receiving" => special_columns \subseteq ColumnsRequested

\* C8, amended: an internal column (event_host,
\* event_contact_groups_precedence, event_contact_groups) is on the Columns:
\* line if and only if the table has it, whether or not the query uses it; a
\* table without them, like eventconsolerules, gets none of them.
C8_SpecialColumnsOfTable ==
    request # "" =>
        LET sent == ColumnsRequested IN
        \A c \in special_columns : c \in sent <=> c \in ecTable.columns

\* the events table, a query that uses none of the three: all three are sent
C8_Witness ==
    /\ request # ""
    /\ ecTable = TableEventConsoleEvents
    /\ allColumns(ecQuery) \cap special_columns = {}
    /\ special_columns \subseteq ColumnsRequested

\* the lines among lines that start with prefix
LinesWith(lines, prefix) == SelectSeq(lines, LAMBDA l : starts_with(l, prefix))

\* C9 as claimed: a filter tree that bounds history_time yields both a >= and
\* a <= line with the bounds.
C9_Original ==
    LET glb == greatestLowerBoundFor(ecQuery.filter, "history_time")
        lub == leastUpperBoundFor(ecQuery.filter, "history_time")
    IN (ecPc = "receiving" /\ (glb.some \/ lub.some)) =>
           /\ LinesWith(RequestLines, "Filter: history_time >= ") # <<>>
           /\ LinesWith(RequestLines, "Filter: history_time <= ") # <<>>

\* C9, amended: the request holds 'Filter: history_time >= <glb>' exactly if
\* greatestLowerBoundFor returns a bound, and 'Filter: history_time <= <lub>'
\* exactly if leastUpperBoundFor returns one; with one bound only, only its
\* line is sent.  No other history_time line is sent.
C9_TimeRangeLines ==
    LET glb == greatestLowerBoundFor(ecQuery.filter, "history_time")
        lub == leastUpperBoundFor(ecQuery.filter, "history_time")
    IN request # "" =>
           LinesWith(RequestLines, "Filter: history_time ") =
               (IF glb.some
                THEN <<"Filter: history_time >= " \o ToString(glb.val)>> ELSE <<>>)
               \o (IF lub.some
                   THEN <<"Filter: history_time <= " \o ToString(lub.val)>> ELSE <<>>)

\* two different bounds, both sent
C9_Witness ==
    /\ request # ""
    /\ LinesWith(RequestLines, "Filter: history_time ") =
           <<"Filter: history_time >= 6", "Filter: history_time <= 7">>

\* the partial filter of a column is one comparison with a forwarded operator
SingleForwardable(column_name) ==
    LET cs == conjuncts(partialFilter(ecQuery.filter, column_name)) IN
    /\ Len(cs) = 1
    /\ cs[1].kind = "column"
    /\ cs[1].oper \in {"equal", "matches", "equal_icase", "matches_icase"}

\* C10: for a column of the allow-list whose partial filter is exactly one
\* comparison with =, ~, =~ or ~~, the request holds exactly one Filter line
\* for the column, with that operator and value as given.
C10_VerbatimOnce ==
    request # "" =>
        \A k \in 1..Len(grepping_filters) :
            LET column_name == grepping_filters[k]
                cs == conjuncts(partialFilter(ecQuery.filter, column_name))
            IN SingleForwardable(column_name) =>
                   LinesWith(RequestLines, "Filter: " \o column_name \o " ") =
                       <<"Filter: " \o column_name \o " "
                             \o (CASE cs[1].oper = "equal" -> "="
                                   [] cs[1].oper = "matches" -> "~"
                                   [] cs[1].oper = "equal_icase" -> "=~"
                                   [] cs[1].oper = "matches_icase" -> "~~")
                             \o " " \o cs[1].val>>

\* one equality on a string column, which also pins the column, and one on
\* an integer column next to a history_time filter
C10_Witness ==
    /\ request # ""
    /\ ecQuery.filter = ColumnFilter("event_text", "equal", "07")
    /\ LinesWith(RequestLines, "Filter: event_text ") = <<"Filter: event_text = 07">>

\* the value a filter tree pins a column to: the string restriction, or else
\* the two bounds when both are known and agree
PinnedValue(query, column_name) ==
    LET svr == stringValueRestrictionFor(query.filter, column_name)
        glb == greatestLowerBoundFor(query.filter, column_name)
        lub == leastUpperBoundFor(query.filter, column_name)
    IN IF svr.some THEN [some |-> TRUE, val |-> svr.val]
       ELSE IF glb.some /\ lub.some /\ glb.val = lub.val
            THEN [some |-> TRUE, val |-> ToString(glb.val)]
            ELSE NoString

\* C11: for a column of the allow-list that is not forwarded verbatim, the
\* request holds 'Filter: <column> = <value>' exactly if the filter tree pins
\* the column to one value (stringValueRestrictionFor returns it, or both
\* bounds are known and equal); with one bound only, or two different
\* bounds, the request holds no Filter line for the column.
C11_PinnedColumnEquality ==
    request # "" =>
        \A k \in 1..Len(grepping_filters) :
            LET column_name == grepping_filters[k]
                pinned == PinnedValue(ecQuery, column_name)
            IN ~SingleForwardable(column_name) =>
                   LinesWith(RequestLines, "Filter: " \o column_name \o " ") =
                       (IF pinned.some
                        THEN <<"Filter: " \o column_name \o " = " \o pinned.val>>
                        ELSE <<>>)

\* event_id >= 07 and event_id <= 07: no string restriction, two equal
\* bounds, and the request pins event_id to 7
C11_Witness ==
    /\ request # ""
    /\ ecQuery.filter = AndingFilter(<<ColumnFilter("event_id", "greater_or_equal", "07"),
                                       ColumnFilter("event_id", "less_or_equal", "07")>>)
    /\ ~stringValueRestrictionFor(ecQuery.filter, "event_id").some
    /\ LinesWith(RequestLines, "Filter: event_id ") = <<"Filter: event_id = 7">>

\* the Filter lines of the request, each as <<"Filter:", column, operator, value>>
FilterLines ==
    LET ls == LinesWith(RequestLines, "Filter: ") IN
    [i \in 1..Len(ls) |-> split(ls[i], " ")]

\* the texts of the operators the event console is sent for the allow-list
ForwardedOperTexts == {"=", "~", "=~", "~~"}

\* the columns and operators of the Filter lines: history_time with >= or <=,
\* a column of the allow-list with =, ~, =~ or ~~
FilterLinesForwardable(fls) ==
    \A i \in 1..Len(fls) :
        /\ Len(fls[i]) = 4
        /\ \/ fls[i][2] = "history_time" /\ fls[i][3] \in {">=", "<="}
           \/ fls[i][2] \in Range(grepping_filters) /\ fls[i][3] \in ForwardedOperTexts

\* a filter tree with a disjunction in it
RECURSIVE HasDisjunction(_)
HasDisjunction(f) ==
    \/ f.kind = "or"
    \/ \E i \in 1..Len(f.subs) : HasDisjunction(f.subs[i])

\* C12 as claimed: Filter lines only for history_time and the allow-list, for
\* the allow-list only with =, ~, =~ or ~~, and no Filter line for a column
\* of the allow-list whose constraints hold a disjunction.
C12_Original ==
    ecPc = "receiving" =>
        LET fls == FilterLines IN
        /\ FilterLinesForwardable(fls)
        /\ \A k \in 1..Len(grepping_filters) :
               HasDisjunction(partialFilter(ecQuery.filter, grepping_filters[k]))
                   => \A i \in 1..Len(fls) : fls[i][2] # grepping_filters[k]

\* C12, amended: Filter lines are sent only for history_time and the columns
\* of the allow-list; a line of an allow-list column carries =, ~, =~ or ~~
\* and never !=, !~, !=~, !~~, <, <=, > or >=.  A column of the allow-list
\* gets a line only if its constraints are one forwardable comparison or pin
\* it to one value; constraints with a disjunction get a line exactly when
\* they pin the column, and the line is then '<column> = <value>'.
C12_OnlyForwardableFilters ==
    request # "" =>
        LET fls == FilterLines IN
        /\ FilterLinesForwardable(fls)
        /\ \A k \in 1..Len(grepping_filters) :
               LET column_name == grepping_filters[k]
                   pinned == PinnedValue(ecQuery, column_name)
                   sent == {i \in 1..Len(fls) : fls[i][2] = column_name}
               IN /\ (~SingleForwardable(column_name) /\ ~pinned.some) => sent = {}
                  /\ HasDisjunction(partialFilter(ecQuery.filter, column_name)) =>
                         /\ sent # {} <=> pinned.some
                         /\ \A i \in sent : fls[i][3] = "=" /\ fls[i][4] = pinned.val

\* event_text = 5 next to the disjunction (event_text = 5 or
\* event_text >= 07): the column is pinned, and the equality is forwarded
C12_Witness ==
    /\ request # ""
    /\ ecQuery.filter =
           AndingFilter(<<ColumnFilter("event_text", "equal", "5"),
                          OringFilter(<<ColumnFilter("event_text", "equal", "5"),
                                        ColumnFilter("event_text", "greater_or_equal", "07")>>)>>)
    /\ HasDisjunction(partialFilter(ecQuery.filter, "event_text"))
    /\ FilterLines = <<<<"Filter:", "event_text", "=", "5">>>>

\* the comparison a Filter line of the request asks the event console for
ForwardedFilter(fields) == ColumnFilter(fields[2], OperFromText(fields[3]), fields[4])

\* C13: pushdown is sound.  For every filter tree, with disjunctions or
\* without, and every row: a row the query's filter accepts is accepted by
\* every Filter line of the request, so the event console is never asked to
\* drop a row the query would accept.
C13_PushdownSound ==
    request # "" =>
        LET fls == FilterLines IN
        \A row \in RowsOver(ecQuery.filter) :
            accepts(ecQuery.filter, row) =>
                \A i \in 1..Len(fls) : accepts(ForwardedFilter(fls[i]), row)

\* a filter with a disjunction that accepts some row and has a line
\* forwarded that rejects another row
C13_Witness ==
    /\ request # ""
    /\ ecQuery.filter =
           AndingFilter(<<ColumnFilter("history_time", "greater_or_equal", "5"),
                          OringFilter(<<ColumnFilter("event_id", "equal", "5"),
                                        ColumnFilter("history_time", "less", "07")>>)>>)
    /\ FilterLines = <<<<"Filter:", "history_time", ">=", "5">>>>
    /\ \E row \in RowsOver(ecQuery.filter) : accepts(ecQuery.filter, row)
    /\ \E row \in RowsOver(ecQuery.filter) :
           ~accepts(ForwardedFilter(FilterLines[1]), row)

-----------------------------------------------------------------------------
(* Properties of the rows of a reply *)

\* the i-th value of a record, empty beyond the record's length
ValueAt(fields, i) == IF i <= Len(fields) THEN fields[i] ELSE ""

\* C15: the first line of a reply is the header and never a row; each later
\* line read becomes one row, whose i-th value is bound to the i-th header
\* name.  For a record shorter than the header, every header name beyond the
\* record's length reads as empty: getString gives "", getInt 0 and
\* getDouble 0.  Values beyond the header's length are bound to no name.
C15_HeaderAndPadding ==
    (linesRead # <<>> /\ linesRead[1] # "") =>
        /\ headers = split(linesRead[1], "\t")
        /\ Rows(AuthEvents) = RecordsRead
        /\ \A k \in 2..Len(linesRead) :
               linesRead[k] # "" =>
                   LET fields == split(linesRead[k], "\t")
                       row == ECRow(headers, fields)
                   IN /\ DOMAIN row.map =
                             {headers[i] : i \in 1..Min(Len(headers), Len(fields))}
                      /\ \A i \in 1..Len(headers) :
                             /\ ECRow_getString(row, headers[i]) = ValueAt(fields, i)
                             /\ i > Len(fields) =>
                                    /\ ECRow_getInt(row, headers[i]) = 0
                                    /\ ECRow_getDouble(row, headers[i]) = 0

\* a header of four names and the record "3<TAB>h1": the two names the
\* record has no value for read as "" and 0
C15_Witness ==
    /\ Len(linesRead) >= 2
    /\ linesRead[1] = HeaderLine
    /\ linesRead[2] = "3\th1"
    /\ Rows(AuthEvents)[1] = "3\th1"
    /\ LET row == ECRow(headers, split(linesRead[2], "\t")) IN
       /\ ECRow_getInt(row, "event_id") = 3
       /\ ECRow_getString(row, "event_host") = "h1"
       /\ ECRow_getString(row, "event_contact_groups") = ""
       /\ ECRow_getInt(row, "event_contact_groups_precedence") = 0
       /\ ECRow_getDouble(row, "event_contact_groups") = 0

-----------------------------------------------------------------------------
(* Properties of a time-series column's arguments *)

\* a positive number as std::to_string writes it
IsPositiveDecimal(text) ==
    /\ text # ""
    /\ SubSeq(text, 1, 1) # "0"
    /\ \A i \in 1..Len(text) : DigitValue(SubSeq(text, i, i)) >= 0

\* the fields are valid: an expression without a colon, three positive
\* numbers and, if there is a fifth field, a number of at least 10
ValidFields(fields) ==
    /\ Len(fields) \in {4, 5}
    /\ fields[1] # "" /\ FindChar(fields[1], ":", 1) = 0
    /\ \A i \in 2..4 : IsPositiveDecimal(fields[i])
    /\ Len(fields) = 5 => IsPositiveDecimal(fields[5]) /\ Len(fields[5]) >= 2

\* C16: decoding the argument string written from valid fields gives back
\* the expression, the start time, the end time and the resolution;
\* max_entries is 400 without a fifth field, and the fifth field's value when
\* that is at least 10.
C16_RoundTrip ==
    (rrdPc \in {"constructed", "invalid", "request"} /\ ValidFields(rrdFields)) =>
        /\ rrdArgs.valid
        /\ rrdArgs.rpn = rrdFields[1]
        /\ ToString(rrdArgs.start_time) = rrdFields[2]
        /\ ToString(rrdArgs.end_time) = rrdFields[3]
        /\ ToString(rrdArgs.resolution) = rrdFields[4]
        /\ IF Len(rrdFields) = 4 THEN rrdArgs.max_entries = 400
           ELSE ToString(rrdArgs.max_entries) = rrdFields[5]

\* "a,1,/:5:7:12" is decoded
C16_Witness ==
    /\ rrdPc = "constructed"
    /\ rrdArguments = "a,1,/:5:7:12"
    /\ rrdArgs = [valid |-> TRUE, error |-> "", rpn |-> "a,1,/", start_time |-> 5,
                  end_time |-> 7, resolution |-> 12, max_entries |-> 400]

\* the error the checks of the fields give, taken in order, "" for none
ExpectedError(fields) ==
    IF fields[1] = ""
    THEN "missing RPN expression for RRD"
    ELSE IF Len(fields) < 2 \/ fields[2] = "" \/ atol(fields[2]) <= 0
    THEN "missing, negative or overflowed start time"
    ELSE IF Len(fields) < 3 \/ fields[3] = "" \/ atol(fields[3]) <= 0
    THEN " missing, negative or overflowed end time"
    ELSE IF Len(fields) < 4 \/ fields[4] = "" \/ atol(fields[4]) <= 0
    THEN "missing or negative resolution"
    ELSE IF Len(fields) >= 5 /\ (fields[5] = "" \/ atol(fields[5]) < 10)
    THEN "Wrong input for max rows"
    ELSE IF Len(fields) >= 6
    THEN "too many arguments"
    ELSE ""

\* the fields as the constructor reads them: an empty field at the very end
\* of the string is not seen
FieldsRead(fields) ==
    IF Len(fields) > 1 /\ fields[Len(fields)] = ""
    THEN SubSeq(fields, 1, Len(fields) - 1) ELSE fields

\* C17 as claimed: construction fails exactly if a field among the first four
\* is missing, empty or not positive, a fifth field is there and is empty or
\* below 10, or a sixth field is there; the error is that of the first
\* failing field.
C17_Original ==
    rrdPc \in {"constructed", "invalid"} =>
        /\ rrdArgs.valid <=> ExpectedError(rrdFields) = ""
        /\ rrdArgs.error = ExpectedError(rrdFields)

\* C17, amended: as claimed, for the fields without an empty field at the
\* very end of the string: a string that ends in a colon is read as the
\* string without that colon, so 'rpn:5:7:12:' is accepted with max_entries
\* 400 and 'rpn:5:7:12:400:' is accepted too; an empty fifth field fails
\* only when another colon follows it.
C17_FirstFailingField ==
    rrdPc \in {"constructed", "invalid"} =>
        /\ rrdArgs.valid <=> ExpectedError(FieldsRead(rrdFields)) = ""
        /\ rrdArgs.error = ExpectedError(FieldsRead(rrdFields))

\* the end time, the resolution, the fifth and the sixth field are all
\* wrong: the error is the end time's
C17_Witness ==
    /\ rrdPc = "invalid"
    /\ rrdFields = <<"a,1,/", "5", "0", "x", "9", "x">>
    /\ rrdArgs.error = " missing, negative or overflowed end time"

-----------------------------------------------------------------------------
(* Properties of the export request *)

\* the tokens of an RPN, as next_token(',') delivers them
RpnTokensOf(rpn) == split(rpn, ",")

\* a token of digits and dots only, and a token that begins with + - / or *
IsNumericLiteral(token) ==
    /\ token # ""
    /\ \A i \in 1..Len(token) :
           SubSeq(token, i, i) \in {"0", "1", "2", "3", "4", "5", "6", "7", "8", "9", "."}
BeginsWithOperator(token) ==
    token # "" /\ SubSeq(token, 1, 1) \in {"+", "-", "/", "*"}

\* the comma-separated parts of a text: one more than it has commas
RECURSIVE CommaSeparated(_)
CommaSeparated(text) ==
    LET at == FindChar(text, ",", 1) IN
    IF at = 0 THEN <<text>>
    ELSE <<SubSeq(text, 1, at - 1)>> \o CommaSeparated(substr(text, at))

\* C18: make rewrites the RPN token by token.  The CDEF body has as many
\* comma-separated tokens as make reads from the RPN, in the same order; a
\* token that is a numeric literal or begins with + - / * is copied as it
\* is, and only other tokens are replaced.
C18_TokenByToken ==
    rrdPc = "request" =>
        LET given == RpnTokensOf(rrdArgs.rpn)
            rewritten == CommaSeparated(converted_rpn)
        IN /\ Len(rewritten) = Len(given)
           /\ \A i \in 1..Len(given) :
                  /\ i <= Len(rewritten)
                  /\ (IsNumericLiteral(given[i]) \/ BeginsWithOperator(given[i]))
                         => rewritten[i] = given[i]

\* a token that make resolves to an RRD
ResolvedToken(token) ==
    /\ isVariableName(token)
    /\ LET location == metricLocation(rrdMetrics, getVarAndCF(token).var) IN
       location.path_ # "" /\ location.data_source_name_ # ""

\* the name make writes for a variable token it cannot resolve
SubstitutedName(token) == replace_all(getVarAndCF(token).var, ".", "_")

\* the DEF directives of the request, in order, and the names they define
DefDirectives == SelectSeq(argv_s, LAMBDA a : starts_with(a, "DEF:"))
NameOfDef(def) == SubSeq(def, 5, FindChar(def, "=", 1) - 1)
AllocatedNames == [i \in 1..Len(DefDirectives) |-> NameOfDef(DefDirectives[i])]

\* C19: the internal names make allocates are var_1, var_2, ..., one per
\* resolved token occurrence, and each differs from the other allocated
\* names, from every token of the RPN and from every name substituted for an
\* unresolved token.
C19_FreshNames ==
    rrdPc = "request" =>
        LET given == RpnTokensOf(rrdArgs.rpn)
            names == AllocatedNames
        IN /\ Len(names) = Len(SelectSeq(given, ResolvedToken))
           /\ \A i \in 1..Len(names) : names[i] = "var_" \o ToString(i)
           /\ \A i, j \in 1..Len(names) : i # j => names[i] # names[j]
           /\ \A i \in 1..Len(names), k \in 1..Len(given) :
                  /\ names[i] # given[k]
                  /\ (isVariableName(given[k]) /\ ~ResolvedToken(given[k]))
                         => names[i] # SubstitutedName(given[k])

\* C20: the request holds one DEF per resolved variable token, binding the
\* internal name to the RRD's path, the data source name and the
\* consolidation function, then one 'CDEF:xxx=<rewritten expression>', then
\* one 'XPORT:xxx:' as its last argument; every allocated name in the CDEF
\* body has its DEF before the CDEF.
C20_RequestDirectives ==
    rrdPc = "request" =>
        LET n == Len(argv_s)
            resolved == SelectSeq(RpnTokensOf(rrdArgs.rpn), ResolvedToken)
            k == Len(resolved)
        IN /\ n >= 2 + k
           /\ argv_s[n] = "XPORT:xxx:"
           /\ argv_s[n - 1] = "CDEF:xxx=" \o converted_rpn
           /\ {i \in 1..n : starts_with(argv_s[i], "XPORT:")} = {n}
           /\ {i \in 1..n : starts_with(argv_s[i], "CDEF:")} = {n - 1}
           /\ {i \in 1..n : starts_with(argv_s[i], "DEF:")} = (n - 1 - k)..(n - 2)
           /\ \A j \in 1..k :
                  LET vc == getVarAndCF(resolved[j])
                      location == RRDLocation(vc.var)
                  IN argv_s[n - 2 - k + j] =
                         "DEF:var_" \o ToString(j) \o "=" \o location.path_ \o ":"
                             \o location.data_source_name_ \o ":" \o vc.cf
           /\ \A j \in 1..next_variable_number :
                  \E i \in 1..(n - 2) :
                      starts_with(argv_s[i], "DEF:var_" \o ToString(j) \o "=")

\* "user.max,fs_used,*" with both metrics in RRDs: two DEFs, the CDEF over
\* var_1 and var_2, the XPORT
C20_Witness ==
    /\ rrdPc = "request"
    /\ rrdArgs.rpn = "user.max,fs_used,*"
    /\ argv_s = <<"rrdtool xport", "-s", "5", "-e", "7", "--step", "12", "-m", "400",
                  "DEF:var_1=/rrd/h1_s1.rrd:2:MAX", "DEF:var_2=/rrd/h1_s1.rrd:1:MAX",
                  "CDEF:xxx=var_1,var_2,*", "XPORT:xxx:">>

-----------------------------------------------------------------------------
(* Unresolved tokens and consolidation functions *)

\* a text's ending
EndsWith(text, ending) ==
    /\ Len(text) >= Len(ending)
    /\ SubSeq(text, Len(text) - Len(ending) + 1, Len(text)) = ending

\* the suffix of a variable-like token that names a consolidation function
CFSuffix(token) ==
    IF EndsWith(token, ".max") THEN ".max"
    ELSE IF EndsWith(token, ".min") THEN ".min"
    ELSE IF EndsWith(token, ".average") THEN ".average"
    ELSE ""

\* the metric a token names, and the consolidation function it asks for
MetricOf(token) == SubSeq(token, 1, Len(token) - Len(CFSuffix(token)))
ConsolidationOf(token) ==
    CASE CFSuffix(token) = ".min" -> "MIN"
      [] CFSuffix(token) = ".average" -> "AVERAGE"
      [] OTHER -> "MAX"

\* C21: a variable-like token whose metric has no RRD location (empty path
\* or empty data source name) is replaced by the metric's name with every
\* '.' written '_'; it gets no DEF, takes no variable number and adds no
\* path to the touched set.  A token's suffix .max, .min or .average selects
\* MAX, MIN or AVERAGE and is stripped from the metric's name; without a
\* suffix the function is MAX.
C21_UnresolvedAndCF ==
    rrdPc = "request" =>
        LET given == RpnTokensOf(rrdArgs.rpn)
            rewritten == CommaSeparated(converted_rpn)
            shift == Len(given) - Len(rewritten)
            resolved == SelectSeq(given, ResolvedToken)
        IN /\ Len(DefDirectives) = Len(resolved)
           /\ next_variable_number = Len(resolved)
           /\ touched_rrds =
                  {RRDLocation(MetricOf(resolved[j])).path_ : j \in 1..Len(resolved)}
           /\ \A i \in 1..Len(given) :
                  (isVariableName(given[i]) /\ ~ResolvedToken(given[i])) =>
                      /\ i - shift >= 1
                      /\ rewritten[i - shift] = replace_all(MetricOf(given[i]), ".", "_")
           /\ \A j \in 1..Len(resolved) :
                  /\ starts_with(DefDirectives[j],
                                 "DEF:var_" \o ToString(j) \o "="
                                     \o RRDLocation(MetricOf(resolved[j])).path_ \o ":")
                  /\ EndsWith(DefDirectives[j], ":" \o ConsolidationOf(resolved[j]))

\* "cpu.load.min,fs_used.min,user.average": cpu.load has a file and no data
\* source name, the other two share a file
C21_Witness ==
    /\ rrdPc = "request"
    /\ rrdArgs.rpn = "cpu.load.min,fs_used.min,user.average"
    /\ rrdMetrics = {"fs_used", "user"}
    /\ converted_rpn = "cpu_load,var_1,var_2"
    /\ DefDirectives = <<"DEF:var_1=/rrd/h1_s1.rrd:1:MIN",
                         "DEF:var_2=/rrd/h1_s1.rrd:2:AVERAGE">>
    /\ next_variable_number = 2
    /\ touched_rrds = {"/rrd/h1_s1.rrd"}

-----------------------------------------------------------------------------
(* Properties of the flush, the export and the result *)

\* the positions of a library function's calls
CallsOf(fn) == {i \in 1..Len(rrdCalls) : rrdCalls[i].fn = fn}

\* make is past the flush, and past the export call
PastFlush == rrdPc \in {"flushed", "copying", "release", "returned", "crashed"}
PastExport == rrdPc \in {"copying", "release", "returned", "crashed"}

\* at most one flush, then at most one export, and the export does not talk
\* to the daemon
C22_CallOrder ==
    /\ \A i \in CallsOf("rrd_flushcached") : i = 1
    /\ \A i \in CallsOf("rrd_xport") :
           /\ i = Len(rrdCalls)
           /\ \A k \in 1..Len(rrdCalls[i].argv) : rrdCalls[i].argv[k] # "--daemon"
    /\ PastExport => Cardinality(CallsOf("rrd_xport")) = 1

\* C22: with pnp4nagios enabled, a non-empty rrdcached socket and at least
\* one resolved binding, make issues exactly one flush request, which names
\* the socket and lists every distinct touched path once, before the export
\* call; otherwise it issues no flush.  A failing flush is only logged and
\* the export is still executed.
C22_FlushBeforeExport ==
    /\ [](/\ C22_CallOrder
          /\ PastFlush =>
                 IF pnp4nagios /\ rrdcached_socket # "" /\ next_variable_number > 0
                 THEN /\ CallsOf("rrd_flushcached") = {1}
                      /\ LET argv == rrdCalls[1].argv
                             paths == SubSeq(argv, 4, Len(argv))
                         IN /\ SubSeq(argv, 1, 3) =
                                   <<"rrdtool flushcached", "--daemon", rrdcached_socket>>
                            /\ Range(paths) = touched_rrds
                            /\ Len(paths) = Cardinality(touched_rrds)
                      /\ rrdCalls[1].ret # 0 =>
                             /\ rrdLog # <<>>
                             /\ rrdLog[1] = "Warning: Error flushing RRD"
                 ELSE CallsOf("rrd_flushcached") = {})
    /\ (rrdPc = "flushed") ~> (PastExport /\ CallsOf("rrd_xport") # {})

\* two bindings into one file, a daemon that fails to flush: one path in the
\* request, a warning, and the export after it
C22_Witness ==
    /\ PastExport
    /\ next_variable_number = 2
    /\ rrdLog # <<>>
    /\ rrdLog[1] = "Warning: Error flushing RRD"
    /\ rrdCalls[1] =
           [fn |-> "rrd_flushcached",
            argv |-> <<"rrdtool flushcached", "--daemon", "/run/rrdcached.sock",
                       "/rrd/h1_s1.rrd">>,
            ret |-> -1]
    /\ rrdCalls[2].fn = "rrd_xport"

\* make has returned after an export that failed
ReturnedAfterFailure == rrdPc = "returned" /\ xport.status # 0

\* C23 as stated: after a failed export the result is three zeros, whatever
\* the timezone offset
C23_Original ==
    ReturnedAfterFailure => rrdResult = <<0, 0, 0>>

\* C23: a failed export raises nothing: it is logged and make returns a
\* result of exactly three entries and no samples, the start and the end
\* being the zero instant shifted by the timezone offset and the step 0.
C23_FailureResult ==
    /\ (PastExport /\ xport.status # 0) => rrdPc = "returned"
    /\ ReturnedAfterFailure =>
           /\ Len(rrdResult) = 3
           /\ rrdResult = <<timezone_offset, timezone_offset, 0>>
           /\ rrdLog[Len(rrdLog)] = "Warning: Error accessing RRD"
           /\ data = Data

\* a failed export two hours east of UTC
C23_Witness ==
    /\ ReturnedAfterFailure
    /\ timezone_offset = 7200
    /\ rrdResult = <<7200, 7200, 0>>

\* make has returned after an export of one column with a positive step
ReturnedOneColumn ==
    /\ rrdPc = "returned"
    /\ xport.status = 0
    /\ xport.col_cnt = 1
    /\ xport.step > 0

\* the times s + p, s + 2p, ... that are not after e
GridPoints(s, e, p) == {t \in (s + 1)..e : (t - s) % p = 0}

\* C24: after a successful export of one column with start s, end e and
\* step p > 0 the result is s and e, each plus the timezone offset, then p,
\* then one sample for each t = s + p, s + 2p, ... with t <= e, taken from
\* the buffer in order: 3 + floor((e - s) / p) entries when e >= s.
C24_SampleGrid ==
    ReturnedOneColumn =>
        LET s == xport.start
            e == xport.end
            p == xport.step
            n == Cardinality(GridPoints(s, e, p))
        IN /\ Len(rrdResult) = 3 + n
           /\ rrdResult[1] = s + timezone_offset
           /\ rrdResult[2] = e + timezone_offset
           /\ rrdResult[3] = p
           /\ \A k \in 1..n : rrdResult[3 + k] = xport.rrd_data[k]
           /\ e >= s => Len(rrdResult) = 3 + ((e - s) \div p)
           /\ overread = 0

\* the interval 0..4 in steps of 3, an hour west of UTC: one sample
C24_Witness ==
    /\ ReturnedOneColumn
    /\ xport.start = 0 /\ xport.end = 4 /\ xport.step = 3
    /\ timezone_offset = -3600
    /\ rrdResult = <<-3600, -3596, 3, 101>>

\* how often a pointer was passed to free
TimesFreed(buffer) == Cardinality({i \in 1..Len(freeCalls) : freeCalls[i] = buffer})

C28_CopyLoopEnds ==
    /\ [](overread = 0 /\ rrdPc # "crashed")
    /\ PastExport ~> (rrdPc = "returned")

\* make is past an export that succeeded with another column count than one
OtherColumnCount == PastExport /\ xport.status = 0 /\ xport.col_cnt # 1

\* C29 as stated: with another column count than one the result is three
\* zeros
C29_Original ==
    (OtherColumnCount /\ rrdPc = "returned") => rrdResult = <<0, 0, 0>>

\* C29: a successful export with another column count than one does not make
\* make fail: the count is logged, no sample is copied, data's start, end and
\* step stay zero, the buffers are freed, and the result has exactly three
\* entries: the zero instant shifted by the timezone offset, twice, and the
\* step 0.
C29_UnexpectedColumns ==
    OtherColumnCount =>
        /\ rrdPc \in {"release", "returned"}
        /\ rrdLog[Len(rrdLog)] =
               "Error: rrd_xport returned " \o ToString(xport.col_cnt) \o " columns"
        /\ data = [start |-> 0, end |-> 0, step |-> 0, values |-> <<>>]
        /\ rrdPc = "returned" =>
               /\ rrdResult = <<timezone_offset, timezone_offset, 0>>
               /\ \A b \in XportBuffers(xport.col_cnt) : TimesFreed(b) = 1
               /\ Len(freeCalls) = xport.col_cnt + 2

\* two columns over 2..4 in steps of 1, two hours east of UTC
C29_Witness ==
    /\ OtherColumnCount
    /\ rrdPc = "returned"
    /\ xport.col_cnt = 2
    /\ xport.start = 2 /\ xport.end = 4 /\ xport.step = 1
    /\ Len(xport.rrd_data) = 4
    /\ timezone_offset = 7200
    /\ rrdResult = <<7200, 7200, 0>>

-----------------------------------------------------------------------------
(* Authorization in the local table scans *)

\* the call before the i-th is the accepting authorization check of its row
AcceptedBefore(i) ==
    /\ i > 1
    /\ trace[i - 1] = AuthEvent(trace[i].row, TRUE)

\* C27 as stated: in every table, the commands table included, a row reaches
\* processDataset only after the user's authorization accepted it
C27_Original ==
    \A i \in 1..Len(trace) : trace[i].type = "data" => AcceptedBefore(i)

\* C27: TableServiceGroups evaluates the user's authorization for each group
\* it visits and passes a group to processDataset only after the check
\* accepted it; TableCommands does not consult the user: it passes every
\* command it visits to processDataset, without an authorization check.
C27_AuthorizationPerTable ==
    /\ scanTable = "servicegroups" =>
           /\ \A i \in 1..Len(trace) : trace[i].type = "data" => AcceptedBefore(i)
           /\ Rows(AuthEvents) = SubSeq(scanRows, 1, Len(AuthEvents))
    /\ scanTable = "commands" =>
           /\ AuthEvents = <<>>
           /\ Rows(DataEvents) = SubSeq(scanRows, 1, Len(DataEvents))
           /\ scanPc = "done" =>
                  \/ Len(DataEvents) = Len(scanRows)
                  \/ DataEvents # <<>> /\ ~DataEvents[Len(DataEvents)].res

\* a finished scan of three commands: three rows passed, no check made
C27_Witness ==
    /\ scanTable = "commands"
    /\ scanPc = "done"
    /\ Len(scanRows) = 3
    /\ Len(DataEvents) = 3
    /\ AuthEvents = <<>>

-----------------------------------------------------------------------------
(* Properties of a service group's columns *)

\* the states of the members of a group that the user may see
AuthorizedStates(group) ==
    {Service(group[i]).current_state :
        i \in {k \in 1..Len(group) : group[k] \in sgUser}}

\* the states from best to worst, and a state's place among them
StatesBestFirst == <<0, 1, 3, 2>>
PlaceOf(state) == CHOOSE k \in 1..4 : StatesBestFirst[k] = state

\* C26: the worst-state reducer starts from the best state and keeps the
\* worst state it sees under OK <= WARN <= UNKNOWN <= CRIT, over the
\* authorized services only.  A group whose authorized services are all OK
\* yields OK; with one authorized CRIT service added it yields CRIT; with
\* that service removed again it yields OK again: the reducer keeps nothing
\* between calls.
C26_WorstStateReducer ==
    /\ \A i \in 1..Len(sgLog) :
           LET seen == AuthorizedStates(sgLog[i].group)
               worst == sgLog[i].worst_service_state
           IN /\ worst \in seen \cup {0}
              /\ \A s \in seen : PlaceOf(s) <= PlaceOf(worst)
              /\ seen \subseteq {0} => worst = 0
              /\ 2 \in seen => worst = 2
    /\ \A i, j \in 1..Len(sgLog) :
           sgLog[i].group = sgLog[j].group =>
               sgLog[i].worst_service_state = sgLog[j].worst_service_state

\* two OK services, then the CRIT service with them, then without it again
C26_Witness ==
    /\ "crit" \in sgUser
    /\ Len(sgLog) = 3
    /\ sgLog[1].group = <<"ok_a", "ok_b">> /\ sgLog[1].worst_service_state = 0
    /\ sgLog[2].group = <<"ok_a", "ok_b", "crit">> /\ sgLog[2].worst_service_state = 2
    /\ sgLog[3].group = <<"ok_a", "ok_b">> /\ sgLog[3].worst_service_state = 0

\* C30: the columns members and members_with_state of a service group hold
\* exactly the member services the user is authorized for, in the order of
\* the member list; a service the user is not authorized for never appears;
\* building the list leaves the group as it was.
C30_AuthorizedMembersOnly ==
    /\ \A i \in 1..Len(sgLog) :
           LET e == sgLog[i]
               visible == SelectSeq(e.group, LAMBDA name : name \in sgUser)
           IN /\ e.members_with_state = e.members
              /\ Len(e.members) = Len(visible)
              /\ \A k \in 1..Len(visible) :
                     /\ e.members[k].description = visible[k]
                     /\ e.members[k] = Service(visible[k])
              /\ \A k \in 1..Len(e.members) : e.members[k].description \in sgUser
    /\ sgPc = "evaluated" => sgLog[Len(sgLog)].group = sgMembers

\* the group of crit and ok_a for a user who may not see crit
C30_Witness ==
    /\ sgPc = "evaluated"
    /\ sgMembers = <<"crit", "ok_a">>
    /\ "crit" \notin sgUser
    /\ sgLog[Len(sgLog)].members =
           <<[host_name |-> "h1", description |-> "ok_a", current_state |-> 0,
              has_been_checked |-> TRUE]>>

=============================================================================
